---- MODULE Spec2Model ----
(***************************************************************************)
(* A model of k8s_jobs: the JobManager / JobDeleter of                     *)
(* src/k8s_jobs/manager.py running against a cluster job backend.          *)
(*                                                                         *)
(* The backend (the Kubernetes batch API) is the environment: jobs are     *)
(* created, reach a terminal condition, and may vanish at any time.  The   *)
(* deleter runs mark passes and sweeps, either called directly or from the *)
(* background loop of run_background_cleanup.  time.time() is a float      *)
(* clock: it is modelled in ticks, TicksPerSec ticks to the second, so     *)
(* that int() truncates as it does in the code.                            *)
(***************************************************************************)
EXTENDS Integers, Sequences, FiniteSets, TLC

VARIABLES
    now,        \* time.time(), in ticks
    backend,    \* the jobs stored in the cluster, by name
    pc,         \* where the deleter's thread of control stands
    mode,       \* "direct": a caller runs one pass; "loop": the worker thread
    kwargs,     \* retention_period_sec, delete_callback given?, interval_sec
    page,       \* fetch_jobs: items of the current page not yet yielded
    more,       \* fetch_jobs: the pages behind the continuation token
    start,      \* run(): start of the iteration; while asleep, the wake-up time
    stopped,    \* run_background_cleanup: the _stopped flag
    stopPc,     \* the caller of stop(): "none", "joining", "returned"
    result,     \* how the pass that has just ended came back to its caller
    pass,       \* what has happened in the pass in progress
    markDue,    \* per job: T + retention of the mark that first annotated it,
                \* T being the time.time() the mark read (a record kept of
                \* the passes a caller runs, not of the background loop's)
    fin_in,     \* job_is_finished: the job handed to it
    fin_out,    \* job_is_finished: the value it returned
    call,       \* an operation applied on its own: its name and arguments
    ret,        \* an operation applied on its own: what it returned or raised
    fetch,      \* fetch_jobs run on its own against a paginating server
    mgr,        \* create_job: the objects in memory and the create calls made
    file,       \* the file a FileReloader watches, as the file system has it
    reloader,   \* the FileReloader: _last_modified and _lock
    owner,      \* the object that holds the reloader, and what it has cached
    caller      \* per thread: where its call into the owner stands

\* the variables of the deleter and its cluster, and those of the operations
\* that are applied on their own
main == <<now, backend, pc, mode, kwargs, page, more, start, stopped, stopPc,
          result, pass, markDue, fin_in, fin_out>>
disk == <<file, reloader, owner, caller>>
aside == <<call, ret, fetch, mgr, disk>>

vars == <<now, backend, pc, mode, kwargs, page, more, start, stopped, stopPc,
          result, pass, markDue, fin_in, fin_out, call, ret, fetch,
          mgr, file, reloader, owner, caller>>

----------------------------------------------------------------------------
(* Bounds of the model *)

MaxJobs == 2
MaxTime == 2
TicksPerSec == 2
MaxConds == 2
MaxLoopJobs == 1
PageSize == 1

Jobs == 1..MaxJobs
Retentions == {0, 1}
Intervals == {0, 1}

None == "None"

----------------------------------------------------------------------------
(* Values *)

Max(a, b) == IF a >= b THEN a ELSE b

\* str(n) for a non-negative int: its decimal digits
RECURSIVE Str(_)
Str(n) == IF n < 10 THEN <<n>> ELSE Append(Str(n \div 10), n % 10)

\* int(s) for a string of decimal digits
RECURSIVE ParseInt(_)
ParseInt(s) ==
    IF Len(s) = 0 THEN 0
    ELSE 10 * ParseInt(SubSeq(s, 1, Len(s) - 1)) + s[Len(s)]

\* int(x) of a float x >= 0 given in ticks: truncation to whole seconds
IntOfTicks(t) == t \div TicksPerSec

\* an int number of seconds as a float, in ticks
Secs(s) == s * TicksPerSec

Condition(t, s) == [type |-> t, status |-> s]
CondTypes == {"Complete", "Failed", "Suspended"}
CondStatuses == {"True", "False", "Unknown"}
Conditions == [type : CondTypes, status : CondStatuses]

\* V1JobStatus: conditions may be unset (None), completion_time may be set
Status(has, conds, ct) ==
    [has_conditions |-> has, conditions |-> conds, completion_time |-> ct]

Active == Status(FALSE, <<>>, FALSE)
Terminal(t) == Status(TRUE, <<Condition(t, "True")>>, TRUE)

----------------------------------------------------------------------------
(* JobManager.job_is_finished *)

RECURSIVE ScanConditions(_)
ScanConditions(conds) ==
    IF Len(conds) = 0 THEN "False"
    ELSE LET condition == Head(conds) IN
         IF condition.status # "True" THEN ScanConditions(Tail(conds))
         ELSE IF condition.type \notin {"Complete", "Failed"}
              THEN ScanConditions(Tail(conds))
         ELSE "True"

\* the value returned: "True", "False", or "None" for the bare return
job_is_finished(job) ==
    IF ~job.status.has_conditions \/ Len(job.status.conditions) = 0
    THEN None
    ELSE ScanConditions(job.status.conditions)

\* Python truth of a returned value, as `if` and `assert not` see it
Truthy(v) == v = "True"

----------------------------------------------------------------------------
(* Job documents and the backend *)

JOB_DELETION_TIME_ANNOTATION == "job_deletion_time_unix_sec"

NoAnnotations == << >>
Annotated(v) == JOB_DELETION_TIME_ANNOTATION :> v

\* a V1Job as a list call returns it
Job(name, status, annotations) ==
    [name |-> name, status |-> status, annotations |-> annotations]

Absent == [state |-> "absent", status |-> Active, annotations |-> NoAnnotations]
\* a job that has been removed: its last status is kept for the record
Gone(stored) ==
    [state |-> "gone", status |-> stored.status, annotations |-> NoAnnotations]
Live(status, annotations) ==
    [state |-> "live", status |-> status, annotations |-> annotations]

\* the items of a list call, in name order, as copies of what is stored
RECURSIVE Listing(_)
Listing(j) ==
    IF j > MaxJobs THEN << >>
    ELSE IF backend[j].state = "live"
         THEN <<Job(j, backend[j].status, backend[j].annotations)>> \o Listing(j + 1)
         ELSE Listing(j + 1)

\* exceptions are values: the class and, for ApiException, the HTTP status
ApiException(status) == [cls |-> "ApiException", status |-> status]
NotFoundException == [cls |-> "NotFoundException", status |-> 0]
NoException == [cls |-> "none", status |-> 0]

is_kubernetes_not_found_exception(e) ==
    IF e.cls = "ApiException" THEN e.status = 404 ELSE FALSE

\* a remaps_exception that wraps every fault, for comparison
RemapsEveryFault(e) == IF e.cls = "none" THEN e ELSE NotFoundException

\* remaps_exception(matchers=[(is_kubernetes_not_found_exception, NotFoundException)])
remaps_exception(e) ==
    IF is_kubernetes_not_found_exception(e) THEN NotFoundException ELSE e

\* JobManager.delete_job: the exception the caller sees for a backend outcome
delete_job(outcome) == remaps_exception(outcome)

----------------------------------------------------------------------------
(* JobDeleter: the per-job decisions *)

\* a mark_deletion_time without its early return, for comparison
NeverAnnotated(job) == FALSE

\* mark_deletion_time: the early return
AlreadyAnnotated(job) ==
    /\ job.annotations # NoAnnotations
    /\ JOB_DELETION_TIME_ANNOTATION \in DOMAIN job.annotations

\* a deadline that leaves out the retention period, for comparison
DeletionTimeNow(t, retention_period_sec) == Str(IntOfTicks(t))

\* mark_deletion_time: str(int(time.time() + retention_period_sec))
DeletionTime(t, retention_period_sec) ==
    Str(IntOfTicks(t + Secs(retention_period_sec)))

\* an is_candidate_for_deletion that wants the deadline strictly passed, for
\* comparison
StrictlyPast(job, t) ==
    /\ JOB_DELETION_TIME_ANNOTATION \in DOMAIN job.annotations
    /\ Secs(ParseInt(job.annotations[JOB_DELETION_TIME_ANNOTATION])) < t

\* an is_candidate_for_deletion that does not read the clock, for comparison
AnnotatedIsCandidate(job, t) ==
    JOB_DELETION_TIME_ANNOTATION \in DOMAIN job.annotations

\* is_candidate_for_deletion at clock reading t:
\* deletion_time is not None and int(deletion_time) <= time.time()
is_candidate_for_deletion(job, t) ==
    /\ JOB_DELETION_TIME_ANNOTATION \in DOMAIN job.annotations
    /\ Secs(ParseInt(job.annotations[JOB_DELETION_TIME_ANNOTATION])) <= t

\* which exceptions each handler catches. The classes derived from
\* Exception, which an except Exception clause catches: the client's
\* ApiException, the package's NotFoundException, and whatever error of that
\* kind a delete callback raises
ExceptionClasses == {"ApiException", "NotFoundException", "CallbackError"}
CallbackError == [cls |-> "CallbackError", status |-> 0]

\* the exceptions derived from BaseException only, which a delete callback
\* can raise as well (sys.exit() in the callback, an interrupt while it
\* runs): an except Exception clause lets them pass
BaseExceptions ==
    {[cls |-> c, status |-> 0] : c \in {"SystemExit", "KeyboardInterrupt"}}

\* mark_jobs_for_deletion: except client.rest.ApiException
MarkCatches(e) == e.cls = "ApiException"

\* cleanup_jobs, inner try: except Exception around delete_callback(job)
CallbackCaught(e) == e.cls \in ExceptionClasses

\* cleanup_jobs, outer try: except client.rest.ApiException
CleanupCatches(e) == e.cls = "ApiException"

\* run(): except Exception around mark_and_delete_old_jobs
RunCatches(e) == e.cls \in ExceptionClasses

----------------------------------------------------------------------------
(* Bookkeeping of the pass in progress *)

NoJob == Job(0, Active, NoAnnotations)

\* patched: jobs a patch was issued for; cbOk, cbFailed: jobs whose delete
\* callback returned, raised; delCalls: jobs a delete was issued for;
\* fault: a backend call of the pass has failed; clock: the time.time() that
\* mark_deletion_time read for the patch request in flight, -1 if none is
NewPass(kind) ==
    [kind |-> kind, patched |-> {}, cbOk |-> {}, cbFailed |-> {},
     delCalls |-> {}, fault |-> FALSE, clock |-> -1]

\* no operation is being applied on its own
NoCall == [fn |-> "none"]

\* no JobManager with its register has been set up
NoManager == [heap |-> << >>, calls |-> << >>]

\* fetch_jobs has not been called on its own
NoFetch ==
    [st |-> "none", script |-> << >>, calls |-> << >>, token |-> 0,
     rest |-> << >>, yielded |-> << >>]

KwArgs(r, cb, i) ==
    [retention_period_sec |-> r, delete_callback |-> cb, interval_sec |-> i]
NoKwArgs == KwArgs(0, FALSE, 0)

\* a caller holding a JobDeleter, no pass in progress, no operation applied
InitCore ==
    /\ now = 0
    /\ backend = [j \in Jobs |-> Absent]
    /\ pc = "idle"
    /\ mode = "direct"
    /\ kwargs = NoKwArgs
    /\ page = << >>
    /\ more = << >>
    /\ start = 0
    /\ stopped = FALSE
    /\ stopPc = "none"
    /\ result = "none"
    /\ pass = NewPass("none")
    /\ markDue = [j \in Jobs |-> -1]
    /\ fin_in = NoJob
    /\ fin_out = "unset"
    /\ call = NoCall
    /\ ret = "unset"
    /\ fetch = NoFetch
    /\ mgr = NoManager

\* no file is watched
NoFile == [exists |-> FALSE, mtime |-> 0, content |-> 0]
NoReloader == [last |-> 0, lock |-> "none", done |-> {}]
NoOwner == [kind |-> "none"]
NoDisk ==
    /\ file = NoFile
    /\ reloader = NoReloader
    /\ owner = NoOwner
    /\ caller = << >>

Init == InitCore /\ NoDisk

\* run_background_cleanup(interval_sec, retention_period_sec=, delete_callback=)
\* has started the worker thread and returned the stop handle
InitLoop ==
    /\ now = 0
    /\ backend = [j \in Jobs |-> Absent]
    /\ pc = "top"
    /\ mode = "loop"
    /\ kwargs \in {KwArgs(r, cb, i) : r \in Retentions, cb \in BOOLEAN, i \in Intervals}
    /\ page = << >>
    /\ more = << >>
    /\ start = 0
    /\ stopped = FALSE
    /\ stopPc = "none"
    /\ result = "none"
    /\ pass = NewPass("none")
    /\ markDue = [j \in Jobs |-> -1]
    /\ fin_in = NoJob
    /\ fin_out = "unset"
    /\ call = NoCall
    /\ ret = "unset"
    /\ fetch = NoFetch
    /\ mgr = NoManager
    /\ NoDisk

----------------------------------------------------------------------------
(* The environment: the cluster and the clock *)

\* the jobs that may come to exist: fewer under the background loop
Universe == IF mode = "loop" THEN 1..MaxLoopJobs ELSE Jobs

\* the terminal condition the orchestrator gives a job
FinishType(j) == IF j % 2 = 1 THEN "Complete" ELSE "Failed"

\* the annotations a job may be created with: the template of the first job,
\* or a user, may have given it the deletion-time annotation already
Templates(j) ==
    IF j = 1 THEN {NoAnnotations, Annotated(Str(0))} ELSE {NoAnnotations}

\* fetch_jobs works on the snapshot the list call took, so a job created or
\* finished while the items of a listing are being worked through is seen
\* exactly as one created or finished after them: such steps are taken
\* between listings
BetweenItems ==
    pc \notin {"mark_item", "mark_patch", "sweep_item", "sweep_del"}

\* a job appears in the namespace
CreateJob(j, annotations) ==
    /\ j \in Universe
    /\ BetweenItems
    /\ backend[j].state = "absent"
    /\ \A i \in Jobs : i < j => backend[i].state # "absent"
    /\ backend' = [backend EXCEPT ![j] = Live(Active, annotations)]
    /\ UNCHANGED <<now, pc, mode, kwargs, page, more, start, stopped, stopPc,
                   result, pass, markDue, fin_in, fin_out, aside>>

\* the orchestrator records a terminal condition
JobFinishes(j) ==
    /\ BetweenItems
    /\ backend[j].state = "live"
    /\ backend[j].status = Active
    /\ backend' = [backend EXCEPT ![j].status = Terminal(FinishType(j))]
    /\ UNCHANGED <<now, pc, mode, kwargs, page, more, start, stopped, stopPc,
                   result, pass, markDue, fin_in, fin_out, aside>>

\* the job is removed by someone else (kubectl, a TTL controller)
JobVanishes(j) ==
    /\ backend[j].state = "live"
    /\ backend' = [backend EXCEPT ![j] = Gone(@)]
    /\ UNCHANGED <<now, pc, mode, kwargs, page, more, start, stopped, stopPc,
                   result, pass, markDue, fin_in, fin_out, aside>>

\* the clock only moves forward
Tick ==
    /\ now < MaxTime
    /\ now' = now + 1
    /\ UNCHANGED <<backend, pc, mode, kwargs, page, more, start, stopped, stopPc,
                   result, pass, markDue, fin_in, fin_out, aside>>

----------------------------------------------------------------------------
(* Entry points and exits of a pass *)

\* a caller invokes mark_jobs_for_deletion(retention_period_sec)
CallMark(r) ==
    /\ pc = "idle" /\ mode = "direct"
    /\ kwargs' = [NoKwArgs EXCEPT !.retention_period_sec = r]
    /\ pc' = "mark_list"
    /\ pass' = NewPass("mark")
    /\ UNCHANGED <<now, backend, mode, page, more, start, stopped, stopPc,
                   result, markDue, fin_in, fin_out, aside>>

\* a caller invokes cleanup_jobs(delete_callback=...)
CallCleanup(cb) ==
    /\ pc = "idle" /\ mode = "direct"
    /\ kwargs' = [NoKwArgs EXCEPT !.delete_callback = cb]
    /\ pc' = "sweep_list"
    /\ pass' = NewPass("sweep")
    /\ UNCHANGED <<now, backend, mode, page, more, start, stopped, stopPc,
                   result, markDue, fin_in, fin_out, aside>>

\* the caller has the outcome of its call and drops the iterator
Return ==
    /\ pc = "done"
    /\ pc' = "idle"
    /\ result' = "none"
    /\ kwargs' = NoKwArgs
    /\ pass' = NewPass("none")
    /\ page' = << >> /\ more' = << >>
    /\ UNCHANGED <<now, backend, mode, start, stopped, stopPc, markDue,
                   fin_in, fin_out, aside>>

\* where control goes when exception e leaves the pass in progress:
\* to the direct caller, or into run()'s handler
Escapes(e) ==
    /\ result' = e.cls
    /\ pc' = IF mode = "direct" THEN "done"
             ELSE IF RunCatches(e) THEN "sleep" ELSE "crashed"

\* where control goes when the pass in progress returns: to the direct
\* caller, or to the next statement of mark_and_delete_old_jobs / run()
Returns(next) ==
    IF mode = "direct"
    THEN pc' = "done" /\ result' = "returned"
    ELSE pc' = next /\ result' = IF next = "sleep" THEN "returned" ELSE result

----------------------------------------------------------------------------
(* JobManager.fetch_jobs: the lazy, paginated listing *)

ItemPc == IF pc \in {"mark_list", "mark_item"} THEN "mark_item" ELSE "sweep_item"

\* a listing cut into the pages the server answers with, PageSize items each
RECURSIVE Chunk(_)
Chunk(items) ==
    IF Len(items) <= PageSize THEN <<items>>
    ELSE <<SubSeq(items, 1, PageSize)>>
         \o Chunk(SubSeq(items, PageSize + 1, Len(items)))

\* the server may also hand out a continuation token with the last items
\* and answer the continuation with an empty page
Pagings(items) == {Chunk(items), Chunk(items) \o << << >> >>}

\* the first list call: response.items, and behind response.metadata._continue
\* the pages still to come
FetchFirst ==
    /\ pc \in {"mark_list", "sweep_list"}
    /\ \/ \E pages \in Pagings(Listing(1)) :
             /\ page' = Head(pages)
             /\ more' = Tail(pages)
             /\ pc' = ItemPc
             /\ UNCHANGED <<result, pass>>
       \/ /\ pass' = [pass EXCEPT !.fault = TRUE]
          /\ Escapes(ApiException(500))
          /\ UNCHANGED <<page, more>>
    /\ UNCHANGED <<now, backend, mode, kwargs, start, stopped, stopPc, markDue,
                   fin_in, fin_out, aside>>

\* while response.metadata._continue: the next page
FetchNext ==
    /\ pc \in {"mark_item", "sweep_item"}
    /\ page = << >> /\ more # << >>
    /\ \/ /\ page' = Head(more)
          /\ more' = Tail(more)
          /\ UNCHANGED <<pc, result, pass>>
       \/ /\ pass' = [pass EXCEPT !.fault = TRUE]
          /\ Escapes(ApiException(500))
          /\ UNCHANGED <<page, more>>
    /\ UNCHANGED <<now, backend, mode, kwargs, start, stopped, stopPc, markDue,
                   fin_in, fin_out, aside>>

----------------------------------------------------------------------------
(* JobDeleter.mark_jobs_for_deletion, one fetched job at a time *)

\* what a patch or delete call on a job can answer
BackendOutcomes(name) ==
    IF backend[name].state = "live"
    THEN {NoException, ApiException(500)}
    ELSE {ApiException(404)}

\* a patch that the backend answers but does not store, for comparison
PatchDropped(stored, value) == stored

\* mark_deletion_time: the document the patch leaves in the backend; the
\* body carries the job's annotations with the deletion time set among
\* them, and the other annotations of the stored job stay
Patched(stored, value) ==
    [stored EXCEPT !.annotations = Annotated(value) @@ @]

\* the body of the for loop up to the patch request: job_is_finished, the
\* early return of mark_deletion_time, and the time.time() that goes into
\* the annotation of the listed copy
MarkItem ==
    /\ pc = "mark_item" /\ page # << >>
    /\ LET job == Head(page)
           finished == job_is_finished(job)
       IN IF ~Truthy(finished) \/ AlreadyAnnotated(job)
          THEN /\ page' = Tail(page)
               /\ UNCHANGED <<pc, pass>>
          ELSE /\ pc' = "mark_patch"
               /\ pass' = [pass EXCEPT !.clock = now]
               /\ UNCHANGED page
    /\ UNCHANGED <<now, backend, mode, kwargs, more, start, stopped, stopPc,
                   result, markDue, fin_in, fin_out, aside>>

\* patch_namespaced_job(name, namespace, body=job): the request is served,
\* with the deadline of the time read before it was sent
MarkPatch ==
    /\ pc = "mark_patch"
    /\ LET job == Head(page)
           name == job.name
           value == DeletionTime(pass.clock, kwargs.retention_period_sec)
       IN \E e \in BackendOutcomes(name) :
          /\ pass' = [pass EXCEPT
                !.patched = @ \cup {name},
                !.fault = IF e = NoException THEN @ ELSE TRUE,
                !.clock = -1]
          /\ IF e = NoException
             THEN /\ backend' = [backend EXCEPT ![name] = Patched(@, value)]
                  /\ markDue' = [markDue EXCEPT ![name] =
                        IF @ = -1 /\ mode = "direct"
                        THEN pass.clock + Secs(kwargs.retention_period_sec)
                        ELSE @]
             ELSE UNCHANGED <<backend, markDue>>
          /\ IF e = NoException \/ MarkCatches(e)
             THEN /\ page' = Tail(page)
                  /\ pc' = "mark_item"
                  /\ UNCHANGED result
             ELSE /\ Escapes(e)
                  /\ UNCHANGED page
    /\ UNCHANGED <<now, mode, kwargs, more, start, stopped, stopPc, fin_in,
                   fin_out, aside>>

\* the listing is exhausted: mark_jobs_for_deletion returns
MarkDone ==
    /\ pc = "mark_item" /\ page = << >> /\ more = << >>
    /\ Returns("sweep_list")
    /\ pass' = IF mode = "direct" THEN pass ELSE NewPass("sweep")
    /\ UNCHANGED <<now, backend, mode, kwargs, page, more, start, stopped,
                   stopPc, markDue, fin_in, fin_out, aside>>

----------------------------------------------------------------------------
(* JobDeleter.cleanup_jobs, one fetched job at a time *)

\* what delete_callback(job) can do: return, raise an error derived from
\* Exception, or raise one derived from BaseException only; the default
\* lambda never raises
CallbackOutcomes ==
    IF kwargs.delete_callback
    THEN {NoException, CallbackError} \cup BaseExceptions
    ELSE {NoException}

\* a cleanup_jobs whose inner handler lacks the continue, for comparison
DeleteRegardless(e) == "delete"

\* what cleanup_jobs does once delete_callback(job) has ended with e
AfterCallback(e) ==
    IF e = NoException THEN "delete"
    ELSE IF CallbackCaught(e) THEN "continue"
    ELSE "raise"

\* what cleanup_jobs does once manager.delete_job(job) has ended with e
AfterDelete(e) ==
    IF e = NoException THEN "continue"
    ELSE IF CleanupCatches(e) THEN "continue"
    ELSE "raise"

\* the candidate check and the delete callback
SweepItem ==
    /\ pc = "sweep_item" /\ page # << >>
    /\ LET job == Head(page)
           name == job.name
       IN IF ~is_candidate_for_deletion(job, now)
          THEN /\ page' = Tail(page)
               /\ UNCHANGED <<pc, result, pass>>
          ELSE \E e \in CallbackOutcomes :
               /\ pass' = [pass EXCEPT
                     !.cbOk = IF e = NoException THEN @ \cup {name} ELSE @,
                     !.cbFailed = IF e = NoException THEN @ ELSE @ \cup {name}]
               /\ CASE AfterCallback(e) = "delete" ->
                         /\ pc' = "sweep_del"
                         /\ UNCHANGED <<page, result>>
                    [] AfterCallback(e) = "continue" ->
                         /\ page' = Tail(page)
                         /\ UNCHANGED <<pc, result>>
                    [] OTHER ->
                         /\ Escapes(e)
                         /\ UNCHANGED page
    /\ UNCHANGED <<now, backend, mode, kwargs, more, start, stopped, stopPc,
                   markDue, fin_in, fin_out, aside>>

\* self.manager.delete_job(job)
SweepDelete ==
    /\ pc = "sweep_del"
    /\ LET job == Head(page)
           name == job.name
       IN \E outcome \in BackendOutcomes(name) :
          LET e == delete_job(outcome) IN
          /\ pass' = [pass EXCEPT
                !.delCalls = @ \cup {name},
                !.fault = IF e = NoException THEN @ ELSE TRUE]
          /\ backend' = IF outcome = NoException
                        THEN [backend EXCEPT ![name] = Gone(@)]
                        ELSE backend
          /\ IF AfterDelete(e) = "continue"
             THEN /\ pc' = "sweep_item"
                  /\ page' = Tail(page)
                  /\ UNCHANGED result
             ELSE /\ Escapes(e)
                  /\ UNCHANGED page
    /\ UNCHANGED <<now, mode, kwargs, more, start, stopped, stopPc, markDue,
                   fin_in, fin_out, aside>>

\* the listing is exhausted: cleanup_jobs returns
SweepDone ==
    /\ pc = "sweep_item" /\ page = << >> /\ more = << >>
    /\ Returns("sleep")
    /\ UNCHANGED <<now, backend, mode, kwargs, page, more, start, stopped,
                   stopPc, pass, markDue, fin_in, fin_out, aside>>

----------------------------------------------------------------------------
(* run_background_cleanup: the worker's loop and the stop handle *)

\* run(): start = time.time(); with _lock: if _stopped: return
\* (an iteration is begun only if its interval ends within the horizon)
LoopTop ==
    /\ pc = "top"
    /\ stopped \/ now + Secs(kwargs.interval_sec) <= MaxTime
    /\ start' = now
    /\ IF stopped
       THEN pc' = "exited" /\ UNCHANGED pass
       ELSE pc' = "mark_list" /\ pass' = NewPass("mark")
    /\ UNCHANGED <<now, backend, mode, kwargs, page, more, stopped, stopPc,
                   result, markDue, fin_in, fin_out, aside>>

\* a sleep of the whole interval whatever the iteration took, for comparison
SleepsWholeInterval(t, started, interval_sec) == t + Secs(interval_sec)

\* time.sleep(max(0, interval_sec - (time.time() - start))): the wake-up time
WakeTime(t, started, interval_sec) ==
    t + Max(0, Secs(interval_sec) - (t - started))

\* the iteration is over (returned, or its exception logged): go to sleep
Sleep ==
    /\ pc = "sleep"
    /\ start' = WakeTime(now, start, kwargs.interval_sec)
    /\ pc' = "asleep"
    /\ result' = "none"
    /\ pass' = NewPass("none")
    /\ page' = << >> /\ more' = << >>
    /\ UNCHANGED <<now, backend, mode, kwargs, stopped, stopPc, markDue,
                   fin_in, fin_out, aside>>

Wake ==
    /\ pc = "asleep"
    /\ now >= start
    /\ pc' = "top"
    /\ UNCHANGED <<now, backend, mode, kwargs, page, more, start, stopped,
                   stopPc, result, pass, markDue, fin_in, fin_out, aside>>

\* a stop() without t.join(), for comparison
NoJoin == TRUE

\* t.join() returns once the worker thread has ended
ThreadEnded == pc \in {"exited", "crashed"}

\* stop(): with _lock: _stopped = True
Stop ==
    /\ mode = "loop" /\ stopPc = "none"
    /\ stopped' = TRUE
    /\ stopPc' = "joining"
    /\ UNCHANGED <<now, backend, pc, mode, kwargs, page, more, start, result,
                   pass, markDue, fin_in, fin_out, aside>>

\* stop(): t.join()
StopJoin ==
    /\ stopPc = "joining"
    /\ ThreadEnded
    /\ stopPc' = "returned"
    /\ UNCHANGED <<now, backend, pc, mode, kwargs, page, more, start, stopped,
                   result, pass, markDue, fin_in, fin_out, aside>>

----------------------------------------------------------------------------
(* job_is_finished on its own, over every small status *)

SeqsUpTo(S, n) == UNION {[1..k -> S] : k \in 0..n}

FinJobs ==
    {Job(1, Status(FALSE, << >>, ct), NoAnnotations) : ct \in BOOLEAN}
    \cup {Job(1, Status(TRUE, conds, ct), NoAnnotations) :
            conds \in SeqsUpTo(Conditions, MaxConds), ct \in BOOLEAN}

InitFin ==
    /\ Init
    /\ fin_in = NoJob /\ fin_out = "unset"

PickJob(job) ==
    /\ fin_in' = job
    /\ fin_out' = "unset"
    /\ UNCHANGED <<now, backend, pc, mode, kwargs, page, more, start, stopped,
                   stopPc, result, pass, markDue, aside>>

CallJobIsFinished ==
    /\ fin_in # NoJob /\ fin_out = "unset"
    /\ fin_out' = job_is_finished(fin_in)
    /\ UNCHANGED <<now, backend, pc, mode, kwargs, page, more, start, stopped,
                   stopPc, result, pass, markDue, fin_in, aside>>

----------------------------------------------------------------------------
(* is_candidate_for_deletion on its own, over small metadata and clocks *)

MaxDeadline == 3
MaxClock == 6

\* bool values as Python prints them
PyBool(b) == IF b THEN "True" ELSE "False"

\* V1ObjectMeta: annotations may be unset (None)
Metadata(has, annotations) ==
    [has_annotations |-> has, annotations |-> annotations]

\* an annotation that is not the deleter's
OtherAnnotation == "note" :> Str(0)

\* deadlines as they are stored: whole seconds, one of them of two digits
Deadlines == (0..MaxDeadline) \cup {10}

CandMetas ==
    {Metadata(FALSE, NoAnnotations), Metadata(TRUE, NoAnnotations),
     Metadata(TRUE, OtherAnnotation)}
    \cup {Metadata(TRUE, Annotated(Str(d))) : d \in Deadlines}
    \cup {Metadata(TRUE, OtherAnnotation @@ Annotated(Str(d))) : d \in Deadlines}

\* job.metadata.annotations or {}
AnnotationsOrEmpty(metadata) ==
    IF metadata.has_annotations /\ DOMAIN metadata.annotations # {}
    THEN metadata.annotations
    ELSE NoAnnotations

\* a job with the given metadata, and time.time() reading t ticks
PickCandidate(metadata, t) ==
    /\ call' = [fn |-> "is_candidate_for_deletion", metadata |-> metadata, t |-> t]
    /\ ret' = "unset"
    /\ UNCHANGED <<main, disk, fetch, mgr>>

CallIsCandidate ==
    /\ call.fn = "is_candidate_for_deletion" /\ ret = "unset"
    /\ ret' = PyBool(is_candidate_for_deletion(
                  Job(1, Active, AnnotationsOrEmpty(call.metadata)), call.t))
    /\ UNCHANGED <<main, disk, call, fetch, mgr>>

----------------------------------------------------------------------------
(* JobManager.fetch_jobs on its own, against a server that paginates *)

MaxPages == 3
MaxPageItems == 2

\* response.metadata._continue: the token after page i, 0 for none (None, "")
NoToken == 0

RECURSIVE SumSizes(_, _)
SumSizes(sizes, i) == IF i = 0 THEN 0 ELSE sizes[i] + SumSizes(sizes, i - 1)

\* what the server holds: pages of the given sizes, the items numbered
\* through, every page but the last handing out the token of the next
Script(sizes) ==
    [i \in 1..Len(sizes) |->
       [items |-> [k \in 1..sizes[i] |-> SumSizes(sizes, i - 1) + k],
        token |-> IF i < Len(sizes) THEN i ELSE NoToken]]

Scripts ==
    {Script(sizes) :
       sizes \in UNION {[1..n -> 0..MaxPageItems] : n \in 1..MaxPages}}

\* list_namespaced_job: without _continue the first page, with the token of
\* page i the page after it
ListPage(script, token) == script[token + 1]

RECURSIVE AllItems(_)
AllItems(script) ==
    IF Len(script) = 0 THEN << >>
    ELSE Head(script).items \o AllItems(Tail(script))

\* a fetch_jobs that makes the first list call only, for comparison
NeverContinues(token) == FALSE

\* while response.metadata._continue
Continues(token) == token # NoToken

\* a caller starts iterating fetch_jobs()
StartFetch(script) ==
    /\ fetch.st \in {"none", "done"}
    /\ fetch' = [NoFetch EXCEPT !.st = "first", !.script = script]
    /\ UNCHANGED <<main, disk, call, ret, mgr>>

\* response = list_namespaced_job(namespace, label_selector)
ListFirst ==
    /\ fetch.st = "first"
    /\ LET response == ListPage(fetch.script, NoToken) IN
       fetch' = [fetch EXCEPT !.st = "yield",
                              !.calls = <<NoToken>>,
                              !.rest = response.items,
                              !.token = response.token]
    /\ UNCHANGED <<main, disk, call, ret, mgr>>

\* yield from response.items, one item
YieldItem ==
    /\ fetch.st = "yield" /\ fetch.rest # << >>
    /\ fetch' = [fetch EXCEPT !.yielded = Append(@, Head(fetch.rest)),
                              !.rest = Tail(@)]
    /\ UNCHANGED <<main, disk, call, ret, mgr>>

\* response = list_namespaced_job(namespace, _continue=response.metadata._continue)
ListNext ==
    /\ fetch.st = "yield" /\ fetch.rest = << >>
    /\ Continues(fetch.token)
    /\ LET response == ListPage(fetch.script, fetch.token) IN
       fetch' = [fetch EXCEPT !.calls = Append(@, fetch.token),
                              !.rest = response.items,
                              !.token = response.token]
    /\ UNCHANGED <<main, disk, call, ret, mgr>>

\* the while loop ends: the generator is exhausted
FetchEnds ==
    /\ fetch.st = "yield" /\ fetch.rest = << >>
    /\ ~Continues(fetch.token)
    /\ fetch' = [fetch EXCEPT !.st = "done"]
    /\ UNCHANGED <<main, disk, call, ret, mgr>>

----------------------------------------------------------------------------
(* Job documents as create_job builds them: names, labels, the signer *)

\* a name is a sequence of characters
\* s[:n]
PySlice(s, n) == SubSeq(s, 1, IF Len(s) < n THEN Len(s) ELSE n)

HexDigits == <<"0", "1", "2", "3", "4", "5", "6", "7",
               "8", "9", "a", "b", "c", "d", "e", "f">>

\* one byte as two hex characters
HexOfByte(b) == <<HexDigits[(b \div 16) + 1], HexDigits[(b % 16) + 1]>>

\* secrets.token_hex: the hex text of the random bytes drawn
RECURSIVE token_hex(_)
token_hex(bytes) ==
    IF Len(bytes) = 0 THEN << >>
    ELSE HexOfByte(Head(bytes)) \o token_hex(Tail(bytes))

SUFFIX_BYTES == 12

\* a MAX_LEN that forgets the dash, for comparison
MAX_LEN_NoDash == 63 - 2 * SUFFIX_BYTES

MAX_LEN == 63 - 1 - 2 * SUFFIX_BYTES

\* the draws of the random source that are told apart: all bytes alike
ByteValues == {0, 171, 255}
RandomBytes(nbytes) == {[i \in 1..nbytes |-> b] : b \in ByteValues}

\* a generate that appends no suffix, for comparison
NameWithoutSuffix(name, bytes) == PySlice(name, MAX_LEN)

\* JobGenerator.generate: f"{name[:self.MAX_LEN]}-{secrets.token_hex(...)}"
GeneratedName(name, bytes) == PySlice(name, MAX_LEN) \o <<"-">> \o token_hex(bytes)

LABEL_KEY == "app.kubernetes.io/managed-by"
JOB_DEFINITION_NAME_KEY == "job_definition_name"

NoLabels == << >>

\* a job document: a V1Job or a dict of the same structure. key: the
\* metadata has a labels entry (a V1Job always has the attribute);
\* has_labels: the entry is a mapping, not None
Doc(kind, name, key, has_labels, labels) ==
    [kind |-> kind, name |-> name, key |-> key, has_labels |-> has_labels,
     labels |-> labels]

\* Python truth of an Optional[str]
StrTruthy(s) == s # None /\ s # ""

\* JobSigner.sign, what it raises: in a dict whose metadata has the entry
\* "labels": None, labels is None and the item assignment raises TypeError
SignError(job) ==
    IF job.kind = "dict" /\ job.key /\ ~job.has_labels
    THEN "TypeError" ELSE "none"

\* a sign that sets the definition label only on a document that carries
\* the ownership label already, for comparison
SignDefinitionWhenOwned(signature, job, job_definition_name) ==
    IF SignError(job) # "none" THEN job
    ELSE LET labels == IF job.has_labels THEN job.labels ELSE NoLabels
             owned == (LABEL_KEY :> signature) @@ labels
         IN [job EXCEPT
               !.key = TRUE, !.has_labels = TRUE,
               !.labels = IF StrTruthy(job_definition_name)
                             /\ LABEL_KEY \in DOMAIN labels
                          THEN (JOB_DEFINITION_NAME_KEY :> job_definition_name)
                               @@ owned
                          ELSE owned]

\* JobSigner.sign: the document as it is left
sign(signature, job, job_definition_name) ==
    IF SignError(job) # "none" THEN job
    ELSE LET fresh == IF job.kind = "V1Job"
                      THEN ~job.has_labels \/ DOMAIN job.labels = {}
                      ELSE ~job.key
             labels == IF fresh THEN NoLabels ELSE job.labels
             owned == (LABEL_KEY :> signature) @@ labels
         IN [job EXCEPT
               !.key = TRUE, !.has_labels = TRUE,
               !.labels = IF StrTruthy(job_definition_name)
                          THEN (JOB_DEFINITION_NAME_KEY :> job_definition_name)
                               @@ owned
                          ELSE owned]

\* JobSigner.label_selector: the text, term by term
label_selector(signature, job_definition_name) ==
    LET selector == <<LABEL_KEY, "=", signature>> IN
    IF StrTruthy(job_definition_name)
    THEN selector \o <<",", JOB_DEFINITION_NAME_KEY, "=", job_definition_name>>
    ELSE selector

\* the terms of a selector text: split(","), then split("=")
RECURSIVE SelectorTerms(_)
SelectorTerms(selector) ==
    IF Len(selector) < 3 THEN {}
    ELSE {<<selector[1], selector[3]>>}
         \cup SelectorTerms(SubSeq(selector, 5, Len(selector)))

\* the backend's equality-based label matching
Matches(selector, labels) ==
    \A term \in SelectorTerms(selector) :
        term[1] \in DOMAIN labels /\ labels[term[1]] = term[2]

----------------------------------------------------------------------------
(* JobManager.create_job: register, generator, signer, create call *)

MaxCreates == 2

\* the manager's signer
Signature == "k8s-jobs"

\* the register, a dict keyed by definition name: g1 has a
\* StaticSpecSource, g2 a YamlStringSpecSource whose template names a
\* variable, and the empty name, a key like any other, a StaticSpecSource
DefNames == {"g1", "g2", ""}
SourceKind(d) == IF d \in {"g1", ""} THEN "static" ELSE "yaml"

\* names a caller may ask for: the registered ones and one that is not
AskedNames == DefNames \cup {"unknown"}

\* the job document each definition holds; the one under the empty name
\* was exported from a job of g1 and still carries its definition label
TemplateDoc(d) ==
    IF d = "g1"
    THEN Doc("dict", <<"j", "o", "b">>, FALSE, FALSE, NoLabels)
    ELSE IF d = "g2"
    THEN Doc("dict", <<"e", "t", "l">>, TRUE, TRUE,
             ("team" :> "data") @@ (JOB_DEFINITION_NAME_KEY :> "old"))
    ELSE Doc("dict", <<"a", "d">>, TRUE, TRUE,
             (JOB_DEFINITION_NAME_KEY :> "g1"))

\* objects in memory: the config each static source holds, by definition
\* name, and "W", the document create_job is working on
Objects == DefNames \cup {"W"}

\* calls: the create_namespaced_job calls made, with the definition name
\* create_job was called for, the random bytes generate drew, the body and
\* the answer
NewManager ==
    [heap |-> [o \in Objects |-> IF o = "W"
                                 THEN Doc("dict", << >>, FALSE, FALSE, NoLabels)
                                 ELSE TemplateDoc(o)],
     calls |-> << >>]

\* what an operation hands back: the heap as it leaves it, the object it
\* returns, the exception it raises
Outcome(heap, obj, exc) == [heap |-> heap, obj |-> obj, exc |-> exc]

\* a StaticSpecSource.get that hands out the stored object, for comparison
StaticGetShared(heap, d) == Outcome(heap, d, "none")

\* StaticSpecSource.get: copy.deepcopy(self.config)
StaticGet(heap, d) == Outcome([heap EXCEPT !["W"] = heap[d]], "W", "none")

\* YamlStringSpecSource.get: render with StrictUndefined, then yaml.safe_load
YamlGet(heap, d, has_args) ==
    IF has_args
    THEN Outcome([heap EXCEPT !["W"] = TemplateDoc(d)], "W", "none")
    ELSE Outcome(heap, "W", "UndefinedError")

\* a get_generator that answers for every name, for comparison
AnyGenerator(register, job_definition_name) == "none"

\* StaticJobDefinitionsRegister.get_generator: KeyError remapped
get_generator(register, job_definition_name) ==
    IF job_definition_name \in register THEN "none" ELSE "NotFoundException"

\* JobGenerator.generate
generate(heap, d, has_args, bytes) ==
    LET got == IF SourceKind(d) = "static" THEN StaticGet(heap, d)
               ELSE YamlGet(heap, d, has_args)
    IN IF got.exc # "none" THEN got
       ELSE Outcome([got.heap EXCEPT ![got.obj].name = GeneratedName(@, bytes)],
                    got.obj, "none")

\* what create_namespaced_job can answer
CreateAnswers == {"created", "ApiException"}

\* JobManager.create_job(job_definition_name, template_args), called with or
\* without a pre_create keyword argument: the signature has none, and the
\* call with one raises TypeError before the body runs
create_job(m, job_definition_name, has_args, with_pre_create, bytes, answer) ==
    IF with_pre_create
    THEN [mgr |-> m, exc |-> "TypeError", value |-> << >>]
    ELSE IF get_generator(DefNames, job_definition_name) # "none"
    THEN [mgr |-> m, exc |-> get_generator(DefNames, job_definition_name),
          value |-> << >>]
    ELSE LET made == generate(m.heap, job_definition_name, has_args, bytes) IN
         IF made.exc # "none"
         THEN [mgr |-> [m EXCEPT !.heap = made.heap], exc |-> made.exc,
               value |-> << >>]
         ELSE IF SignError(made.heap[made.obj]) # "none"
         THEN [mgr |-> [m EXCEPT !.heap = made.heap],
               exc |-> SignError(made.heap[made.obj]), value |-> << >>]
         ELSE LET signed == [made.heap EXCEPT ![made.obj] =
                               sign(Signature, @, job_definition_name)]
                  body == signed[made.obj]
              IN [mgr |-> [heap |-> signed,
                           calls |-> Append(m.calls,
                                       [definition |-> job_definition_name,
                                        drawn |-> bytes,
                                        body |-> body, answer |-> answer])],
                  exc |-> IF answer = "created" THEN "none" ELSE answer,
                  value |-> IF answer = "created" THEN body.name ELSE << >>]

\* JobManager(namespace, signer, register): the sources hold their documents
NewJobManager ==
    /\ mgr = NoManager
    /\ mgr' = NewManager
    /\ UNCHANGED <<main, disk, call, ret, fetch>>

\* a caller calls create_job; hooked: the times the call has invoked the
\* pre_create argument, which create_job has no parameter for
CreateJobCall(d, has_args, with_pre_create, bytes, answer) ==
    /\ mgr # NoManager
    /\ Len(mgr.calls) < MaxCreates
    /\ LET out == create_job(mgr, d, has_args, with_pre_create, bytes, answer) IN
       /\ mgr' = out.mgr
       /\ call' = [fn |-> "create_job", job_definition_name |-> d,
                   has_args |-> has_args, pre_create |-> with_pre_create]
       /\ ret' = [exc |-> out.exc, value |-> out.value, hooked |-> 0]
    /\ UNCHANGED <<main, disk, fetch>>

----------------------------------------------------------------------------
(* JobGenerator.generate on its own: the name, over template names of
   every small length *)

MaxNameLen == 40

Letters == <<"a", "b", "c", "d", "e", "f", "g", "h", "i", "j", "k", "l", "m",
             "n", "o", "p", "q", "r", "s", "t", "u", "v", "w", "x", "y", "z">>

\* a template name of n characters
NameOfLen(n) == [i \in 1..n |-> Letters[((i - 1) % 26) + 1]]

\* generate() on a source whose document has the given name
GenerateCall(name, bytes) ==
    /\ call' = [fn |-> "generate", name |-> name]
    /\ ret' = GeneratedName(name, bytes)
    /\ UNCHANGED <<main, disk, fetch, mgr>>

----------------------------------------------------------------------------
(* JobSigner.sign called on one document, and called on it again *)

\* the labels a document may carry before it is signed: any of a label of
\* the caller's, an ownership label of another signer, an older definition
\* label
LabelKeys == {"team", LABEL_KEY, JOB_DEFINITION_NAME_KEY}
OldValue(k) ==
    IF k = "team" THEN "data" ELSE IF k = LABEL_KEY THEN "other" ELSE "old"
Mappings == {[k \in ks |-> OldValue(k)] : ks \in SUBSET LabelKeys}

\* the documents: a V1Job with labels None or a mapping, a dict without the
\* labels entry, with the entry None, or with a mapping
SignDocs ==
    LET name == <<"j", "o", "b">> IN
    {Doc("V1Job", name, TRUE, FALSE, NoLabels),
     Doc("dict", name, FALSE, FALSE, NoLabels),
     Doc("dict", name, TRUE, FALSE, NoLabels)}
    \cup {Doc(kind, name, TRUE, TRUE, m) :
            kind \in {"V1Job", "dict"}, m \in Mappings}

\* the job_definition_name arguments
SignNames == {None, "", "g1", "g2"}

\* signer.sign(job, job_definition_name): the document is changed in place
SignCall(job, job_definition_name) ==
    /\ call' = [fn |-> "sign", job |-> job,
                job_definition_name |-> job_definition_name, times |-> 1]
    /\ ret' = [exc |-> SignError(job),
               job |-> sign(Signature, job, job_definition_name)]
    /\ UNCHANGED <<main, disk, fetch, mgr>>

\* the same call once more on the document as the first call left it
SignAgain ==
    /\ call.fn = "sign" /\ call.times = 1
    /\ call' = [call EXCEPT !.times = 2]
    /\ ret' = [exc |-> SignError(ret.job),
               job |-> sign(Signature, ret.job, call.job_definition_name)]
    /\ UNCHANGED <<main, disk, fetch, mgr>>

----------------------------------------------------------------------------
(* JobSigner.label_selector called with extra key/value filters *)

MaxExtras == 2

\* the extra filters a caller passes as keyword arguments, with their values
\* as an f-string prints them
ExtraKeys == {"extra", "another", "tier"}
ExtraValue(k) ==
    IF k = "extra" THEN "label" ELSE IF k = "another" THEN "2" ELSE "batch"

\* keyword arguments in the order supplied: no keyword twice
Extras ==
    {e \in UNION {[1..n -> ExtraKeys] : n \in 0..MaxExtras} :
        \A i, j \in 1..Len(e) : i # j => e[i] # e[j]}

\* how the call passes the definition name: not at all, positionally, or by
\* keyword before or after the extras
Styles == {"omitted", "positional", "keyword_before", "keyword_after"}

\* the call as Python binds it to label_selector(self, job_definition_name=
\* None): the definition name binds either way; a keyword that is no
\* parameter raises TypeError before the body runs
BindLabelSelector(signature, job_definition_name, extra) ==
    IF extra # << >>
    THEN [exc |-> "TypeError", value |-> << >>]
    ELSE [exc |-> "none",
          value |-> label_selector(signature, job_definition_name)]

\* signer.label_selector(...)
LabelSelectorCall(job_definition_name, extra, style) ==
    /\ style = "omitted" => job_definition_name = None
    /\ call' = [fn |-> "label_selector",
                job_definition_name |-> job_definition_name,
                extra |-> extra, style |-> style]
    /\ ret' = BindLabelSelector(Signature, job_definition_name, extra)
    /\ UNCHANGED <<main, disk, fetch, mgr>>

----------------------------------------------------------------------------
(* JobDefinition and its spec source *)

\* the dataclass: a name and four optional fields; the constructor checks
\* nothing
JobDefinition(name, spec, spec_path, spec_config_map_name, spec_config_map_namespace) ==
    [name |-> name, spec |-> spec, spec_path |-> spec_path,
     spec_config_map_name |-> spec_config_map_name,
     spec_config_map_namespace |-> spec_config_map_namespace]

\* the definitions a manifest may hold
JobDefinitions ==
    {JobDefinition(n, s, p, c, ns) :
        n \in {"a", "b", "c"}, s \in {None, "", "x: {{v}}"},
        p \in {None, "", "/etc/job.yaml"}, c \in {None, "cm"},
        ns \in {None, "ns1"}}

\* JobDefinition.spec_source: the class of the source it constructs; none of
\* the three constructors raises
spec_source(jd) ==
    IF StrTruthy(jd.spec)
    THEN [exc |-> "none", class |-> "YamlStringSpecSource"]
    ELSE IF StrTruthy(jd.spec_path)
    THEN [exc |-> "none", class |-> "YamlFileSpecSource"]
    ELSE [exc |-> "none", class |-> "ConfigMapSpecSource"]

\* jd.spec_source()
SpecSourceCall(jd) ==
    /\ call' = [fn |-> "spec_source", jd |-> jd]
    /\ ret' = spec_source(jd)
    /\ UNCHANGED <<main, disk, fetch, mgr>>

\* the definition a manifest holds under a name: an inline spec
ManifestEntry(name) == JobDefinition(name, "x: {{v}}", None, None, None)

----------------------------------------------------------------------------
(* FileReloader.maybe_reload, and the objects that hold a reloader *)

MaxMtime == 2
MaxVersion == 2

\* st_mtime values, in file-system ticks after the epoch
Mtimes == 1..MaxMtime

\* the texts the file has held: the n-th write leaves text n
Versions == 1..MaxVersion

\* the threads that call into the object holding the reloader
ReloadThreads == {"r1", "r2"}

\* the other variables
core == <<main, call, ret, fetch, mgr>>

\* the kinds of holder: a caller driving the generator itself, with a Mock
\* as callback; a YamlFileSpecSource; a ReloadingJobDefinitionsRegister
DirectCaller == "caller"
FileSource == "YamlFileSpecSource"
Register == "ReloadingJobDefinitionsRegister"

\* the definitions the manifest lists in each of its texts
Manifest(v) ==
    IF v % 3 = 1 THEN {"a", "c"} ELSE IF v % 3 = 2 THEN {"a", "b"} ELSE {"b"}

\* what the holder makes of the text it read, and stores in its callback:
\* the text's template, or the mapping built from the manifest
Consumed(kind, text) == IF kind = Register THEN Manifest(text) ELSE text

\* a thread outside any call; st_mtime: statbuf.st_mtime; last_modified:
\* the local of that name; got: the text read; opened: the call opened the
\* file; swapped: its compare-and-swap took effect
NoOut == [exc |-> "none", value |-> "none"]
IdleCaller ==
    [pc |-> "idle", op |-> "none", arg |-> "none", st_mtime |-> 0,
     last_modified |-> 0, got |-> 0, update_callback |-> "none",
     opened |-> FALSE, swapped |-> FALSE, out |-> NoOut]

\* FileReloader(path), and the holder before its constructor has run
NewReloader == [last |-> 0, lock |-> "free", done |-> {}]
NewOwner(kind) ==
    [kind |-> kind, constructed |-> kind = DirectCaller, loaded |-> FALSE,
     cached |-> IF kind = Register THEN {} ELSE 0]

\* the file when the reloader is constructed: missing, or written once
InitialFiles == {NoFile, [exists |-> TRUE, mtime |-> 1, content |-> 1]}

InitReload(kind, threads) ==
    /\ InitCore
    /\ file \in InitialFiles
    /\ reloader = NewReloader
    /\ owner = NewOwner(kind)
    /\ caller = [t \in threads |-> IdleCaller]

\* the file system: the file is written in place (open(path, "w+"), created
\* if need be) with the modification time the write, or os.utime after it,
\* leaves; a reader that has the file open and has not read yet reads the
\* new text
Rewrite(m) ==
    /\ file.content < MaxVersion
    /\ file' = [exists |-> TRUE, mtime |-> m, content |-> file.content + 1]
    /\ UNCHANGED <<reloader, owner, caller, core>>

\* the text behind a reader that is open and unread when the file is
\* unlinked: the reader keeps the file it opened, whatever is written under
\* the path afterwards
Unlinked(c, f) ==
    IF c.pc = "read" /\ c.got = 0 THEN [c EXCEPT !.got = f.content] ELSE c

Remove ==
    /\ file.exists
    /\ file' = [file EXCEPT !.exists = FALSE]
    /\ caller' = [t \in DOMAIN caller |-> Unlinked(caller[t], file)]
    /\ UNCHANGED <<reloader, owner, core>>

\* the operations of each kind of holder
Ops(kind) ==
    IF kind = DirectCaller THEN {"maybe_reload"}
    ELSE IF kind = FileSource THEN {"init", "get"}
    ELSE {"init", "get_generator"}

\* a thread calls into the holder: its constructor, once, or a method of
\* the constructed object
Call(t, op, arg) ==
    /\ caller[t].pc = "idle"
    /\ op \in Ops(owner.kind)
    /\ IF op = "init"
       THEN ~owner.constructed /\ \A u \in DOMAIN caller : caller[u].pc = "idle"
       ELSE owner.constructed
    /\ (op # "get_generator") => arg = "none"
    /\ caller' = [caller EXCEPT ![t] =
                    [IdleCaller EXCEPT !.pc = "stat", !.op = op, !.arg = arg]]
    /\ UNCHANGED <<file, reloader, owner, core>>

\* Path(self.path).stat()
stat(f) ==
    IF f.exists THEN [exc |-> "none", st_mtime |-> f.mtime]
    ELSE [exc |-> "FileNotFoundError", st_mtime |-> 0]

\* a handler that lets the error out, for comparison
RaiseFileNotFound(c) ==
    [IdleCaller EXCEPT !.out = [exc |-> "FileNotFoundError",
                                value |-> "none"]]

\* except FileNotFoundError: logger.warning(...); return
OnFileNotFound(c) == [c EXCEPT !.pc = "after"]

Stat(t) ==
    /\ caller[t].pc = "stat"
    /\ caller' = [caller EXCEPT ![t] =
                    IF stat(file).exc # "none" THEN OnFileNotFound(@)
                    ELSE [@ EXCEPT !.pc = "check",
                                   !.st_mtime = stat(file).st_mtime]]
    /\ UNCHANGED <<file, reloader, owner, core>>

\* if statbuf.st_mtime <= last_modified: return
Unmodified(st_mtime, last_modified) == st_mtime <= last_modified

\* with self._lock: last_modified = self._last_modified; ...
Check(t) ==
    /\ caller[t].pc = "check"
    /\ reloader.lock = "free"
    /\ caller' = [caller EXCEPT ![t] =
                    [@ EXCEPT !.last_modified = reloader.last,
                              !.pc = IF Unmodified(caller[t].st_mtime,
                                                   reloader.last)
                                     THEN "after" ELSE "open"]]
    /\ UNCHANGED <<file, reloader, owner, core>>

\* with open(self.path, "r") as f: yield f; the holder has the reader and
\* has read nothing yet (got = 0). FileNotFoundError from open leaves
\* through the holder's method
Open(t) ==
    /\ caller[t].pc = "open"
    /\ caller' = [caller EXCEPT ![t] =
                    IF file.exists
                    THEN [@ EXCEPT !.pc = "read", !.got = 0, !.opened = TRUE]
                    ELSE [IdleCaller EXCEPT
                            !.out = [exc |-> "FileNotFoundError",
                                     value |-> "none"]]]
    /\ UNCHANGED <<file, reloader, owner, core>>

\* what the holder's code raises between next(update) and update.send(...),
\* step by step.
\* reader.read() (YamlFileSpecSource, and the register through the parser):
\* UnicodeDecodeError on bytes that are not UTF-8, plain OSError when the
\* read itself fails (an I/O error of the device, a file such as
\* /proc/self/mem), MemoryError on a text that does not fit.
\* yaml.safe_load(reader) (the register): YAMLError on a text that is not
\* YAML, and from the constructor of a tagged or resolved scalar ValueError
\* (a date with month 13, !!int abc), IndexError (!!int '' and !!float '',
\* whose first character is read), KeyError (!!bool abc), AttributeError
\* (!!timestamp abc), OverflowError (a timestamp of year 1 with an offset,
\* in the releases of the parser that subtract the offset), RecursionError
\* on a text nested too deep.
\* [JobDefinition(**d) for d in ...]: TypeError on an empty manifest, an
\* entry that is no mapping, or a field JobDefinition does not have.
\* job_definition.spec_source() builds a YamlFileSpecSource for an entry's
\* spec_path, which runs stat, open and read and catches only
\* FileNotFoundError from stat, so that the other errors of the file system
\* leave it: the subclasses of OSError for a directory, a path through a
\* file, a file that may not be read or that vanished before the open, and
\* plain OSError (a path too long, a loop of links); ValueError and
\* TypeError for a spec_path that is no path.
\* A caller driving the generator itself may raise anything
ConsumerFaults(kind) ==
    LET reading == {"UnicodeDecodeError", "OSError", "MemoryError"}
        parsing == {"YAMLError", "ValueError", "IndexError", "KeyError",
                    "AttributeError", "OverflowError", "RecursionError"}
        building == {"TypeError"}
        opening == {"ValueError", "TypeError", "OSError",
                    "IsADirectoryError", "NotADirectoryError",
                    "PermissionError", "FileNotFoundError"}
    IN  IF kind = Register
        THEN reading \cup parsing \cup building \cup opening
        ELSE IF kind = FileSource THEN reading
        ELSE {"Exception"}

\* @remaps_exception({KeyError: NotFoundException}) on get_generator: the
\* class the caller sees for a class raised inside the method, the reload
\* that reading self.generators begins with included; the constructor is
\* not decorated
RemapsKeyError(op, cls) ==
    IF op = "get_generator" /\ cls = "KeyError" THEN "NotFoundException"
    ELSE cls

\* how the holder's code ends once it has the reader: it sends its
\* callback, None, or nothing at all (the generator is dropped), or it
\* raises one of its faults before it sends anything
Sends(kind) ==
    ConsumerFaults(kind)
    \cup (IF kind = DirectCaller THEN {"callback", "None", "nothing"}
          ELSE {"callback"})

\* reader.read(), or yaml.safe_load(reader): the text of the file as it is
\* when the holder reads, or the text of the file the reader was left with
\* when the path was unlinked
ReadText(c, f) == IF c.got = 0 THEN f.content ELSE c.got

\* a reloader that commits the modification time when it hands out the
\* text, for comparison
CommittedOnYield(r, c) == [r EXCEPT !.last = c.st_mtime]

\* the generator is left at its yield and dropped: the code after the
\* yield never runs
DroppedAtYield(r, c) == r

\* the holder's code between next(update) and update.send(...)
Consume(t, send) ==
    /\ caller[t].pc = "read"
    /\ send \in Sends(owner.kind)
    /\ IF send \in ConsumerFaults(owner.kind)
       THEN /\ caller' = [caller EXCEPT ![t] =
                            [IdleCaller EXCEPT
                               !.out = [exc |-> RemapsKeyError(caller[t].op,
                                                               send),
                                        value |-> "none"]]]
            /\ reloader' = DroppedAtYield(reloader, caller[t])
       ELSE /\ caller' = [caller EXCEPT ![t] =
                            [@ EXCEPT !.pc = IF send = "nothing" THEN "after"
                                             ELSE "send",
                                      !.got = ReadText(caller[t], file),
                                      !.update_callback = send]]
            /\ UNCHANGED reloader
    /\ UNCHANGED <<file, owner, core>>

\* with self._lock: the lock is taken
Acquire(t) ==
    /\ caller[t].pc = "send"
    /\ reloader.lock = "free"
    /\ reloader' = [reloader EXCEPT !.lock = t]
    /\ caller' = [caller EXCEPT ![t].pc = "cas"]
    /\ UNCHANGED <<file, owner, core>>

\* a commit that does not compare, for comparison
CasAlways(last_modified, current) == TRUE

\* a commit that only checks that the committed time has not gone back, for
\* comparison
CasUnlessEarlier(last_modified, current) == last_modified <= current

\* if last_modified == self._last_modified
CasHolds(last_modified, current) == last_modified = current

\* a callback that adds to what is stored, for comparison
MergeStored(kind, old, new) == IF kind = Register THEN old \cup new ELSE new

\* a callback that publishes the mapping while it is being built, for
\* comparison
PublishPartial(kind, old, new) ==
    IF kind = Register THEN {CHOOSE x \in new : TRUE} ELSE new

\* _set_string_spec_source / _set_generators: the attribute is replaced
SetStored(kind, old, new) == new

\* the compare-and-swap and the callback, then the lock is released; done:
\* the modification times of the commits that have taken effect
Cas(t) ==
    LET c == caller[t]
        effective == CasHolds(c.last_modified, reloader.last)
    IN /\ c.pc = "cas"
       /\ reloader' = [last |-> IF effective THEN c.st_mtime ELSE reloader.last,
                       lock |-> "free",
                       done |-> IF effective
                                THEN reloader.done \cup {c.st_mtime}
                                ELSE reloader.done]
       /\ owner' = IF effective /\ c.update_callback = "callback"
                   THEN [owner EXCEPT
                           !.loaded = TRUE,
                           !.cached = SetStored(owner.kind, @,
                                                Consumed(owner.kind, c.got))]
                   ELSE owner
       /\ caller' = [caller EXCEPT ![t] =
                       [@ EXCEPT !.pc = "after", !.swapped = effective]]
       /\ UNCHANGED <<file, core>>

\* what the holder's method returns once _maybe_reload is through:
\* maybe_reload itself whether it yielded; get the rendering of the cached
\* template; get_generator the entry of the cached mapping, which is what
\* spec_source() returned for the definition
Returned(o, c) ==
    IF c.op = "maybe_reload" THEN [exc |-> "none", value |-> c.opened]
    ELSE IF c.op = "init" THEN NoOut
    ELSE IF ~o.loaded THEN [exc |-> "AttributeError", value |-> "none"]
    ELSE IF c.op = "get" THEN [exc |-> "none", value |-> o.cached]
    ELSE IF c.arg \in o.cached
    THEN [exc |-> "none", value |-> spec_source(ManifestEntry(c.arg)).class]
    ELSE [exc |-> "NotFoundException", value |-> "none"]

Finish(t) ==
    /\ caller[t].pc = "after"
    /\ caller' = [caller EXCEPT ![t] =
                    [IdleCaller EXCEPT !.out = Returned(owner, caller[t])]]
    /\ owner' = IF caller[t].op = "init"
                THEN [owner EXCEPT !.constructed = TRUE] ELSE owner
    /\ UNCHANGED <<file, reloader, core>>

----------------------------------------------------------------------------
(* YamlStringSpecSource: a jinja2 template rendered strictly, then parsed *)

MaxPieces == 2

\* the variables a template may name, and the keys a caller may pass: the
\* variables and one key no template names
TemplateVars == {"u", "v"}
ArgNames == TemplateVars \cup {"other"}

\* a Python value, as its type and its str()
PyValue(type, text) == [type |-> type, text |-> text]

\* the values a caller binds to a variable: a word, a text that opens a YAML
\* flow sequence and does not close it, None, and the number 1
ArgValues ==
    {PyValue("str", "foo"), PyValue("str", "["), PyValue("NoneType", "None"),
     PyValue("int", "1")}

\* a template is a YAML mapping with one entry per piece, "k<i>: <piece>";
\* a piece is literal text, an expression left open ("{{"), or, for a
\* variable x,
\*   print       {{ x }}
\*   default     {{ x | default('d') }}
\*   if_defined  {% if x is defined %}{{ x }}{% endif %}
\*   if          {% if x %}y{% endif %}
\*   for         {% for i in x %}{{ i }}{% endfor %}
\*   eq          {{ x == 1 }}
\*   add         {{ x + 1 }}
\*   attr        {{ x.missing }}
PieceKinds ==
    {"print", "default", "if_defined", "if", "for", "eq", "add", "attr"}

Pieces ==
    {[kind |-> k, var |-> None] : k \in {"text", "unclosed"}}
    \cup {[kind |-> k, var |-> x] : k \in PieceKinds, x \in TemplateVars}

StringTemplates == UNION {[1..n -> Pieces] : n \in 0..MaxPieces}

\* template_args: None, or a dict; the key no template names is bound to
\* the word
TemplateArgs ==
    {[is_none |-> TRUE, dict |-> << >>]}
    \cup {[is_none |-> FALSE, dict |-> d] :
             d \in {e \in UNION {[S -> ArgValues] : S \in SUBSET ArgNames} :
                       "other" \in DOMAIN e
                       => e["other"] = PyValue("str", "foo")}}

\* template_args or {}
OrEmpty(template_args) ==
    IF template_args.is_none THEN << >> ELSE template_args.dict

\* jinja2.Template(self.spec, ...) and env.parse(self.spec): the template
\* parses unless an expression is left open; otherwise TemplateSyntaxError
Parses(spec) == \A i \in 1..Len(spec) : spec[i].kind # "unclosed"

\* jinja2.Undefined: an undefined value prints as the empty string, is
\* false, iterates over nothing and equals nothing; it raises only in
\* arithmetic and when an attribute of it is read, for comparison
LenientUndefined(use) ==
    IF use \in {"add", "getattr"}
    THEN [exc |-> "UndefinedError", out |-> ""]
    ELSE [exc |-> "none", out |-> IF use = "eq" THEN "False" ELSE ""]

\* jinja2.StrictUndefined: an undefined value raises UndefinedError in
\* every use of it, str, bool, iter, eq, add or getattr; only the defined
\* test and the default filter look at it without using it
StrictUndefined(use) == [exc |-> "UndefinedError", out |-> ""]

\* what one piece renders to in a context. A bound variable is its value,
\* None included; an unbound one is an undefined value, and so is an
\* attribute that a bound value does not have (none of the values has the
\* attribute the template reads). Of the values None is false, only the
\* strings can be iterated (character by character), and only the number
\* can be added to 1: the other loops and sums raise TypeError
RenderPiece(piece, context) ==
    LET bound == piece.var \in DOMAIN context
        value == context[piece.var]
    IN  CASE piece.kind = "text" -> [exc |-> "none", out |-> "x"]
          [] piece.kind = "print" ->
               IF bound THEN [exc |-> "none", out |-> value.text]
               ELSE StrictUndefined("str")
          [] piece.kind = "default" ->
               [exc |-> "none", out |-> IF bound THEN value.text ELSE "d"]
          [] piece.kind = "if_defined" ->
               [exc |-> "none", out |-> IF bound THEN value.text ELSE ""]
          [] piece.kind = "if" ->
               IF bound
               THEN [exc |-> "none",
                     out |-> IF value.type = "NoneType" THEN "" ELSE "y"]
               ELSE StrictUndefined("bool")
          [] piece.kind = "for" ->
               IF ~bound THEN StrictUndefined("iter")
               ELSE IF value.type = "str"
               THEN [exc |-> "none", out |-> value.text]
               ELSE [exc |-> "TypeError", out |-> ""]
          [] piece.kind = "eq" ->
               IF bound
               THEN [exc |-> "none",
                     out |-> IF value = PyValue("int", "1") THEN "True"
                             ELSE "False"]
               ELSE StrictUndefined("eq")
          [] piece.kind = "add" ->
               IF ~bound THEN StrictUndefined("add")
               ELSE IF value = PyValue("int", "1")
               THEN [exc |-> "none", out |-> "2"]
               ELSE [exc |-> "TypeError", out |-> ""]
          [] piece.kind = "attr" ->
               IF bound THEN StrictUndefined("str")
               ELSE StrictUndefined("getattr")

\* jinja2.Template(self.spec, undefined=jinja2.StrictUndefined).render(...):
\* TemplateSyntaxError for a template that does not parse; otherwise the
\* rendered value of each entry, or the error of the first piece that
\* raises
render(spec, context) ==
    IF ~Parses(spec)
    THEN [exc |-> "TemplateSyntaxError", value |-> << >>]
    ELSE LET outs == [i \in 1..Len(spec) |-> RenderPiece(spec[i], context)]
             raised == {i \in 1..Len(spec) : outs[i].exc # "none"}
         IN  IF raised # {}
             THEN [exc |-> outs[CHOOSE i \in raised :
                                   \A j \in raised : i <= j].exc,
                   value |-> << >>]
             ELSE [exc |-> "none",
                   value |-> [i \in 1..Len(spec) |-> outs[i].out]]

\* yaml.safe_load of the rendered mapping: YAMLError when an entry is not
\* YAML (a flow sequence that is not closed); otherwise an entry with
\* nothing after the colon loads as None, True and False as bool, digits as
\* int and any other plain scalar as the string
safe_load(rendered) ==
    IF \E i \in 1..Len(rendered) : rendered[i] = "["
    THEN [exc |-> "YAMLError", value |-> << >>]
    ELSE [exc |-> "none",
          value |-> [i \in 1..Len(rendered) |->
               IF rendered[i] = "" THEN PyValue("NoneType", "None")
               ELSE IF rendered[i] \in {"True", "False"}
               THEN PyValue("bool", rendered[i])
               ELSE IF rendered[i] \in {"1", "2"}
               THEN PyValue("int", rendered[i])
               ELSE PyValue("str", rendered[i])]]

\* YamlStringSpecSource.get
YamlStringGet(spec, template_args) ==
    LET rendered == render(spec, OrEmpty(template_args))
    IN  IF rendered.exc # "none" THEN rendered
        ELSE safe_load(rendered.value)

\* jinja2.meta.find_undeclared_variables: every name the template looks up
\* that it does not set itself (the loop variable of a for block is set)
find_undeclared_variables(spec) ==
    {spec[i].var : i \in {j \in 1..Len(spec) : spec[j].kind \in PieceKinds}}

\* YamlStringSpecSource.template_vars
template_vars(spec) ==
    IF Parses(spec)
    THEN [exc |-> "none", value |-> find_undeclared_variables(spec)]
    ELSE [exc |-> "TemplateSyntaxError", value |-> {}]

\* YamlStringSpecSource(spec): the constructor keeps the string
StringSourceInit(spec) ==
    /\ call = NoCall
    /\ call' = [fn |-> "__init__", spec |-> spec]
    /\ ret' = [exc |-> "none", value |-> None]
    /\ UNCHANGED <<main, disk, fetch, mgr>>

\* a source has been constructed and no call on it is under way
IsStringSource == call.fn = "__init__"

\* a call has returned and the caller has taken its result: the source,
\* which holds nothing but the string, is as it was constructed
StringCallReturns ==
    /\ call.fn \in {"get", "template_vars"}
    /\ call' = [fn |-> "__init__", spec |-> call.spec]
    /\ ret' = [exc |-> "none", value |-> None]
    /\ UNCHANGED <<main, disk, fetch, mgr>>

\* source.get(template_args)
StringGetCall(template_args) ==
    /\ IsStringSource
    /\ call' = [fn |-> "get", spec |-> call.spec,
                template_args |-> template_args]
    /\ ret' = YamlStringGet(call.spec, template_args)
    /\ UNCHANGED <<main, disk, fetch, mgr>>

\* source.template_vars()
TemplateVarsCall ==
    /\ IsStringSource
    /\ call' = [fn |-> "template_vars", spec |-> call.spec]
    /\ ret' = template_vars(call.spec)
    /\ UNCHANGED <<main, disk, fetch, mgr>>

----------------------------------------------------------------------------
(* JobManager.delete_job and read_job called directly *)

\* the namespace of the manager, and the one a job document may name
Namespaces == {"ns1", "ns2"}

\* what the backend may answer: success, an ApiException with an HTTP status
\* (0: no response was received), or an exception of another class, one of
\* them with a status attribute of 404
BackendFaults ==
    {ApiException(s) : s \in {0, 404, 409, 500}}
    \cup {[cls |-> "MaxRetryError", status |-> 0],
          [cls |-> "HTTPError", status |-> 404]}
BackendAnswers == {NoException} \cup BackendFaults

\* the names of jobs asked for, and the V1Job documents handed to delete_job
DirectNames == {"j1", "j2", "j3"}
DirectJobs == [name : DirectNames, namespace : Namespaces]

\* delete_namespaced_job(name=job.metadata.name, namespace=self.namespace,
\*     body=client.V1DeleteOptions(propagation_policy="Foreground"))
DeleteRequest(namespace, job) ==
    [api |-> "delete_namespaced_job", name |-> job.name,
     namespace |-> namespace, propagation_policy |-> "Foreground"]

\* read_namespaced_job_status(name=job_name, namespace=self.namespace)
ReadRequest(namespace, job_name) ==
    [api |-> "read_namespaced_job_status", name |-> job_name,
     namespace |-> namespace]

\* manager.delete_job(job) on a JobManager(namespace, ...): returns None
DeleteJobCall(namespace, job, answer) ==
    /\ call' = [fn |-> "delete_job", namespace |-> namespace, job |-> job,
                request |-> DeleteRequest(namespace, job),
                answer |-> answer]
    /\ ret' = [exc |-> delete_job(answer), value |-> None]
    /\ UNCHANGED <<main, disk, fetch, mgr>>

\* manager.read_job(job_name): returns the response of the backend
ReadJobCall(namespace, job_name, answer) ==
    /\ call' = [fn |-> "read_job", namespace |-> namespace,
                job |-> [name |-> job_name, namespace |-> namespace],
                request |-> ReadRequest(namespace, job_name),
                answer |-> answer]
    /\ ret' = [exc |-> remaps_exception(answer),
               value |-> IF answer = NoException THEN "V1Job" ELSE None]
    /\ UNCHANGED <<main, disk, fetch, mgr>>

----------------------------------------------------------------------------
(* JobDeleters calling mark_jobs_for_deletion and mark_and_delete_old_jobs
   on one backend *)

Deleters == {"d1", "d2"}

DeleterOps == {"mark_jobs_for_deletion", "mark_and_delete_old_jobs"}

\* a deleter between calls. Of the call in progress or made last: seen, the
\* jobs that were finished when it was made; unmarked, those of them without
\* the annotation; marked, the jobs it has patched, each with the
\* time.time() that mark_deletion_time read for it; deleted, the jobs it has
\* deleted; fault, whether a backend call of it has failed; clock, the
\* time.time() read for the patch request in flight, -1 if none is
IdleDeleter ==
    [pc |-> "idle", op |-> "none", retention_period_sec |-> 0, page |-> << >>,
     seen |-> {}, unmarked |-> {}, marked |-> << >>, deleted |-> {},
     fault |-> FALSE, clock |-> -1]

\* the variables a deleter's step leaves alone
besideDeleters ==
    <<now, pc, mode, kwargs, page, more, start, stopped, stopPc, result, pass,
      markDue, fin_in, fin_out, ret, fetch, mgr, disk>>

\* two deleters are set up on the namespace
DeletersStart ==
    /\ call = NoCall
    /\ call' = [fn |-> "deleters", of |-> [d \in Deleters |-> IdleDeleter]]
    /\ UNCHANGED <<backend, besideDeleters>>

\* a stored job carries the deletion-time annotation
HasAnnotation(stored) ==
    JOB_DELETION_TIME_ANNOTATION \in DOMAIN stored.annotations

\* the jobs in the namespace that are finished
FinishedNow ==
    {j \in Jobs : /\ backend[j].state = "live"
                  /\ Truthy(job_is_finished(
                        Job(j, backend[j].status, backend[j].annotations)))}

\* a caller invokes mark_jobs_for_deletion(retention_period_sec) or
\* mark_and_delete_old_jobs(retention_period_sec=...) on a deleter
DeleterCalls(d, op, retention_period_sec) ==
    /\ call.fn = "deleters"
    /\ call.of[d].pc = "idle"
    /\ call' = [call EXCEPT !.of[d] =
                  [IdleDeleter EXCEPT
                     !.pc = "mark_list", !.op = op,
                     !.retention_period_sec = retention_period_sec,
                     !.seen = FinishedNow,
                     !.unmarked = {j \in FinishedNow :
                                     ~HasAnnotation(backend[j])}]]
    /\ UNCHANGED <<backend, besideDeleters>>

\* for job in self.manager.fetch_jobs(): the jobs are listed; each pass
\* works on the copies its own list call returned
DeleterLists(d) ==
    /\ call.fn = "deleters"
    /\ call.of[d].pc \in {"mark_list", "sweep_list"}
    /\ call' = [call EXCEPT
                  !.of[d].pc = IF @ = "mark_list" THEN "mark_items"
                               ELSE "sweep_items",
                  !.of[d].page = Listing(1)]
    /\ UNCHANGED <<backend, besideDeleters>>

\* the body of mark_jobs_for_deletion's loop up to the patch request:
\* job_is_finished and the early return are decided on the listed copy, and
\* time.time() is read for the annotation
DeleterMarksItem(d) ==
    /\ call.fn = "deleters"
    /\ call.of[d].pc = "mark_items" /\ call.of[d].page # << >>
    /\ LET job == Head(call.of[d].page)
       IN IF ~Truthy(job_is_finished(job)) \/ AlreadyAnnotated(job)
          THEN call' = [call EXCEPT !.of[d].page = Tail(@)]
          ELSE call' = [call EXCEPT !.of[d].pc = "mark_patch",
                                    !.of[d].clock = now]
    /\ UNCHANGED <<backend, besideDeleters>>

\* patch_namespaced_job(name, namespace, body=job): the request is served
\* and acts on what is stored, with the deadline of the time read before it
\* was sent; an ApiException is caught and the loop goes on
DeleterPatches(d) ==
    /\ call.fn = "deleters"
    /\ call.of[d].pc = "mark_patch"
    /\ LET name == Head(call.of[d].page).name
           t == call.of[d].clock
           value == DeletionTime(t, call.of[d].retention_period_sec)
       IN \E e \in BackendOutcomes(name) :
             IF e = NoException
             THEN /\ backend' = [backend EXCEPT ![name] = Patched(@, value)]
                  /\ call' = [call EXCEPT
                                !.of[d].pc = "mark_items",
                                !.of[d].clock = -1,
                                !.of[d].page = Tail(@),
                                !.of[d].marked = (name :> t) @@ @]
             ELSE /\ MarkCatches(e)
                  /\ call' = [call EXCEPT !.of[d].pc = "mark_items",
                                          !.of[d].clock = -1,
                                          !.of[d].page = Tail(@),
                                          !.of[d].fault = TRUE]
                  /\ UNCHANGED backend
    /\ UNCHANGED besideDeleters

\* the body of cleanup_jobs' loop with the default delete_callback, up to
\* the delete request: the candidate check on the listed copy
DeleterSweepsItem(d) ==
    /\ call.fn = "deleters"
    /\ call.of[d].pc = "sweep_items" /\ call.of[d].page # << >>
    /\ call' = IF is_candidate_for_deletion(Head(call.of[d].page), now)
               THEN [call EXCEPT !.of[d].pc = "sweep_delete"]
               ELSE [call EXCEPT !.of[d].page = Tail(@)]
    /\ UNCHANGED <<backend, besideDeleters>>

\* self.manager.delete_job(job): the request is served; an ApiException is
\* caught and the loop goes on, any other exception ends the call
DeleterDeletes(d) ==
    /\ call.fn = "deleters"
    /\ call.of[d].pc = "sweep_delete"
    /\ LET name == Head(call.of[d].page).name
       IN \E outcome \in BackendOutcomes(name) :
             LET e == delete_job(outcome) IN
             IF e = NoException
             THEN /\ backend' = [backend EXCEPT ![name] = Gone(@)]
                  /\ call' = [call EXCEPT
                                !.of[d].pc = "sweep_items",
                                !.of[d].page = Tail(@),
                                !.of[d].deleted = @ \cup {name}]
             ELSE /\ call' = [call EXCEPT
                                !.of[d].fault = TRUE,
                                !.of[d].page =
                                   IF AfterDelete(e) = "continue"
                                   THEN Tail(@) ELSE << >>,
                                !.of[d].pc =
                                   IF AfterDelete(e) = "continue"
                                   THEN "sweep_items" ELSE "idle"]
                  /\ UNCHANGED backend
    /\ UNCHANGED besideDeleters

\* the listing is exhausted: the pass returns; mark_and_delete_old_jobs goes
\* on from mark_jobs_for_deletion to cleanup_jobs
DeleterDone(d) ==
    /\ call.fn = "deleters"
    /\ call.of[d].pc \in {"mark_items", "sweep_items"}
    /\ call.of[d].page = << >>
    /\ call' = [call EXCEPT
                  !.of[d].pc =
                     IF @ = "mark_items"
                        /\ call.of[d].op = "mark_and_delete_old_jobs"
                     THEN "sweep_list" ELSE "idle"]
    /\ UNCHANGED <<backend, besideDeleters>>

----------------------------------------------------------------------------
(* JobManager.fetch_jobs against a namespace that other managers use too *)

\* another manager's signature
OtherSignature == "other"

\* a job in the namespace: created by this manager for definition g1, or by
\* the other manager
NamespaceJob(i, k, own) ==
    [name |-> <<i, k>>,
     labels |-> IF own
                THEN (LABEL_KEY :> Signature) @@ (JOB_DEFINITION_NAME_KEY :> "g1")
                ELSE LABEL_KEY :> OtherSignature]

\* what the namespace holds, in the pages the server cuts it into
Namespace(owns) ==
    [i \in 1..Len(owns) |->
       [k \in 1..Len(owns[i]) |-> NamespaceJob(i, k, owns[i][k])]]

NamespaceContents ==
    {Namespace(owns) :
       owns \in UNION {[1..n -> SeqsUpTo(BOOLEAN, MaxPageItems)] :
                          n \in 1..MaxPages}}

\* the label_selector keyword is not passed
NoSelector == << >>

\* the keyword arguments of a list_namespaced_job call
ListRequest(namespace, label_selector_, _continue) ==
    [namespace |-> namespace, label_selector |-> label_selector_,
     _continue |-> _continue]

\* the backend's answer: of the page asked for, the items the selector of
\* the request matches, all of them when the request has none
ListResponse(server, request) ==
    LET i == request._continue + 1
        wanted(job) == \/ request.label_selector = NoSelector
                       \/ Matches(request.label_selector, job.labels)
    IN [items |-> SelectSeq(server[i], wanted),
        _continue |-> IF i < Len(server) THEN i ELSE NoToken]

\* list_namespaced_job(namespace=, _continue=): the call inside the while loop
ContinuationRequest(namespace, selector, _continue) ==
    ListRequest(namespace, NoSelector, _continue)

\* while response.metadata._continue: ...; yield from response.items
RECURSIVE FetchRest(_, _, _, _, _)
FetchRest(server, selector, response, requests, yielded) ==
    IF ~Continues(response._continue)
    THEN [requests |-> requests, yielded |-> yielded]
    ELSE LET request == ContinuationRequest("ns1", selector, response._continue)
             next == ListResponse(server, request)
         IN FetchRest(server, selector, next, Append(requests, request),
                      yielded \o next.items)

\* fetch_jobs(job_definition_name) iterated to its end: the list calls made
\* and the jobs yielded
fetch_jobs(server, job_definition_name) ==
    LET selector == label_selector(Signature, job_definition_name)
        request == ListRequest("ns1", selector, NoToken)
        response == ListResponse(server, request)
    IN FetchRest(server, selector, response, <<request>>, response.items)

\* a caller iterates fetch_jobs(job_definition_name) over the namespace
FetchJobsCall(server, job_definition_name) ==
    /\ call = NoCall
    /\ call' = [fn |-> "fetch_jobs", server |-> server,
                job_definition_name |-> job_definition_name]
    /\ ret' = fetch_jobs(server, job_definition_name)
    /\ UNCHANGED <<main, disk, fetch, mgr>>

----------------------------------------------------------------------------
(* JobManager.job_logs *)

MaxPods == 2

\* what read_namespaced_pod_log may do for a pod: return the log, raise an
\* ApiException whose text says ContainerCreating, raise another
\* ApiException, or raise an exception of another class
PodAnswers ==
    {[exc |-> NoException, creating |-> FALSE],
     [exc |-> ApiException(400), creating |-> TRUE],
     [exc |-> ApiException(404), creating |-> FALSE],
     [exc |-> ApiException(500), creating |-> FALSE],
     [exc |-> [cls |-> "MaxRetryError", status |-> 0], creating |-> FALSE]}

\* the pods list_namespaced_pod returns for the job: pod i has one or two
\* containers
PodLists ==
    UNION {[1..n -> [containers : 1..2, answer : PodAnswers]] :
              n \in 0..MaxPods}

\* the text job_logs builds, piece by piece
PodHeader(i) == [text |-> "Pod: ", pod |-> i]
PodLog(i) == [text |-> "pod_logs", pod |-> i]
\* (the footer is a line of seven equals signs)
PodFooter(i) == [text |-> "footer", pod |-> i]

\* except client.rest.ApiException as e: if "ContainerCreating" in str(e)
SkipsPod(answer) == answer.exc.cls = "ApiException" /\ answer.creating

\* the for loop over response.items, from pod i on, with the text so far
RECURSIVE PodLogs(_, _, _)
PodLogs(pods, i, logs) ==
    IF i > Len(pods)
    THEN [exc |-> NoException, value |-> logs]
    ELSE LET answer == pods[i].answer
             header == Append(logs, PodHeader(i))
         IN  IF answer.exc = NoException
             THEN PodLogs(pods, i + 1, header \o <<PodLog(i), PodFooter(i)>>)
             ELSE IF SkipsPod(answer)
             THEN PodLogs(pods, i + 1, header)
             ELSE [exc |-> answer.exc, value |-> << >>]

\* JobManager.job_logs under remaps_exception
job_logs(list_answer, pods) ==
    LET inner == IF list_answer # NoException
                 THEN [exc |-> list_answer, value |-> << >>]
                 ELSE PodLogs(pods, 1, << >>)
    IN  [exc |-> remaps_exception(inner.exc), value |-> inner.value]

\* manager.job_logs(job_name)
JobLogsCall(list_answer, pods) ==
    /\ call' = [fn |-> "job_logs", list_answer |-> list_answer, pods |-> pods]
    /\ ret' = job_logs(list_answer, pods)
    /\ UNCHANGED <<main, disk, fetch, mgr>>

----------------------------------------------------------------------------
(* Specifications *)

\* passes called directly, one after another, on a changing cluster
Next ==
    \/ \E j \in Jobs : \E a \in Templates(j) : CreateJob(j, a)
    \/ \E j \in Jobs : JobFinishes(j)
    \/ \E j \in Jobs : JobVanishes(j)
    \/ Tick
    \/ \E r \in Retentions : CallMark(r)
    \/ \E cb \in BOOLEAN : CallCleanup(cb)
    \/ Return
    \/ FetchFirst
    \/ FetchNext
    \/ MarkItem
    \/ MarkPatch
    \/ MarkDone
    \/ SweepItem
    \/ SweepDelete
    \/ SweepDone

Spec == Init /\ [][Next]_vars

\* the background loop of run_background_cleanup and its stop handle
Worker ==
    \/ LoopTop
    \/ FetchFirst
    \/ FetchNext
    \/ MarkItem
    \/ MarkPatch
    \/ MarkDone
    \/ SweepItem
    \/ SweepDelete
    \/ SweepDone
    \/ Sleep
    \/ Wake

NextLoop ==
    \/ \E j \in Jobs : \E a \in Templates(j) : CreateJob(j, a)
    \/ \E j \in Jobs : JobFinishes(j)
    \/ \E j \in Jobs : JobVanishes(j)
    \/ Tick
    \/ LoopTop
    \/ FetchFirst
    \/ FetchNext
    \/ MarkItem
    \/ MarkPatch
    \/ MarkDone
    \/ SweepItem
    \/ SweepDelete
    \/ SweepDone
    \/ Sleep
    \/ Wake
    \/ Stop
    \/ StopJoin

LoopSpec == InitLoop /\ [][NextLoop]_vars

\* the thread scheduler runs the worker and the stopping caller, and time passes
FairLoopSpec ==
    LoopSpec /\ WF_vars(Worker) /\ WF_vars(StopJoin) /\ WF_vars(Tick)

\* the background loop that nobody stops
NextReclaim ==
    \/ \E j \in Jobs : \E a \in Templates(j) : CreateJob(j, a)
    \/ \E j \in Jobs : JobFinishes(j)
    \/ \E j \in Jobs : JobVanishes(j)
    \/ Tick
    \/ Worker

ReclaimSpec ==
    InitLoop /\ [][NextReclaim]_vars /\ WF_vars(Worker) /\ WF_vars(Tick)

\* job_is_finished applied to one status after another
NextFin ==
    \/ \E job \in FinJobs : PickJob(job)
    \/ CallJobIsFinished

FinSpec == InitFin /\ [][NextFin]_vars


\* is_candidate_for_deletion applied to one job and clock reading after another
NextCand ==
    \/ \E metadata \in CandMetas, t \in 0..MaxClock : PickCandidate(metadata, t)
    \/ CallIsCandidate

CandSpec == Init /\ [][NextCand]_vars


\* fetch_jobs iterated to its end, against one server content after another
NextFetch ==
    \/ \E script \in Scripts : StartFetch(script)
    \/ ListFirst
    \/ YieldItem
    \/ ListNext
    \/ FetchEnds

FetchSpec == Init /\ [][NextFetch]_vars


\* create_job called again and again on one manager
NextCreate ==
    \/ NewJobManager
    \/ \E d \in AskedNames, has_args \in BOOLEAN, with_pre_create \in BOOLEAN,
       bytes \in RandomBytes(SUFFIX_BYTES), answer \in CreateAnswers :
        CreateJobCall(d, has_args, with_pre_create, bytes, answer)

CreateSpec == Init /\ [][NextCreate]_vars


\* generate applied to one template name after another
NextGen ==
    \E n \in 0..MaxNameLen, bytes \in RandomBytes(SUFFIX_BYTES) :
        GenerateCall(NameOfLen(n), bytes)

GenSpec == Init /\ [][NextGen]_vars


\* sign applied to one document after another, once and twice
NextSign ==
    \/ \E job \in SignDocs, job_definition_name \in SignNames :
          SignCall(job, job_definition_name)
    \/ SignAgain

SignSpec == Init /\ [][NextSign]_vars


\* label_selector called with one set of arguments after another
NextSelector ==
    \E job_definition_name \in SignNames, extra \in Extras, style \in Styles :
        LabelSelectorCall(job_definition_name, extra, style)

SelectorSpec == Init /\ [][NextSelector]_vars


\* two threads driving one FileReloader while the file is rewritten in place
\* and removed
InitReloader == InitReload(DirectCaller, ReloadThreads)

\* the names get_generator is asked for: one that only the first manifest
\* lists and one that only later manifests list
Asked == {"none", "b", "c"}

Reloading(t) ==
    \/ \E op \in Ops(owner.kind), arg \in Asked : Call(t, op, arg)
    \/ Stat(t)
    \/ Check(t)
    \/ Open(t)
    \/ \E send \in Sends(owner.kind) : Consume(t, send)
    \/ Acquire(t)
    \/ Cas(t)
    \/ Finish(t)

NextReloader ==
    \/ \E m \in Mtimes : Rewrite(m)
    \/ Remove
    \/ \E t \in DOMAIN caller : Reloading(t)

ReloaderSpec == InitReloader /\ [][NextReloader]_vars


\* one thread constructs a YamlFileSpecSource and calls get again and again;
\* between the calls the file is rewritten in place or removed
InitFileSource == InitReload(FileSource, {"r1"})

BetweenCalls == \A t \in DOMAIN caller : caller[t].pc = "idle"

NextFileSource ==
    \/ BetweenCalls /\ \E m \in Mtimes : Rewrite(m)
    \/ BetweenCalls /\ Remove
    \/ \E t \in DOMAIN caller : Reloading(t)

FileSourceSpec == InitFileSource /\ [][NextFileSource]_vars


\* spec_source called on one definition after another
NextDefinition == \E jd \in JobDefinitions : SpecSourceCall(jd)

DefinitionSpec == Init /\ [][NextDefinition]_vars


\* two threads call get_generator on one ReloadingJobDefinitionsRegister
\* while the manifest is rewritten in place and removed
InitRegister == InitReload(Register, ReloadThreads)

NextRegister ==
    \/ \E m \in Mtimes : Rewrite(m)
    \/ Remove
    \/ \E t \in DOMAIN caller : Reloading(t)

RegisterSpec == InitRegister /\ [][NextRegister]_vars


\* a source is constructed from a string template; get and template_vars
\* are called on it again and again
NextTemplate ==
    \/ call = NoCall /\ \E spec \in StringTemplates : StringSourceInit(spec)
    \/ IsStringSource
       /\ \E template_args \in TemplateArgs : StringGetCall(template_args)
    \/ TemplateVarsCall
    \/ StringCallReturns

TemplateSpec == Init /\ [][NextTemplate]_vars


\* delete_job and read_job called one after another, whatever the backend
\* answers
NextDirect ==
    \/ \E namespace \in Namespaces, job \in DirectJobs,
          answer \in BackendAnswers : DeleteJobCall(namespace, job, answer)
    \/ \E namespace \in Namespaces, job_name \in DirectNames,
          answer \in BackendAnswers : ReadJobCall(namespace, job_name, answer)

DirectSpec == Init /\ [][NextDirect]_vars


\* job_logs called for one job after another
NextLogs ==
    \E list_answer \in {NoException, ApiException(404), ApiException(500)},
       pods \in PodLists : JobLogsCall(list_answer, pods)

LogsSpec == Init /\ [][NextLogs]_vars


\* two deleters run marking passes on one namespace, step by step in any
\* order, while jobs appear and finish and the clock advances
NextDeleters ==
    \/ DeletersStart
    \/ \E j \in Jobs : CreateJob(j, NoAnnotations)
    \/ \E j \in Jobs : JobFinishes(j)
    \/ Tick
    \/ \E d \in Deleters, r \in Retentions :
          DeleterCalls(d, "mark_jobs_for_deletion", r)
    \/ \E d \in Deleters : DeleterLists(d)
    \/ \E d \in Deleters : DeleterMarksItem(d)
    \/ \E d \in Deleters : DeleterPatches(d)
    \/ \E d \in Deleters : DeleterDone(d)

DeletersSpec == Init /\ [][NextDeleters]_vars


\* one deleter is called again and again, each call step by step, while
\* jobs appear and finish and the clock advances
NextComposed ==
    \/ DeletersStart
    \/ \E j \in Jobs : CreateJob(j, NoAnnotations)
    \/ \E j \in Jobs : JobFinishes(j)
    \/ Tick
    \/ \E op \in DeleterOps, r \in Retentions : DeleterCalls("d1", op, r)
    \/ DeleterLists("d1")
    \/ DeleterMarksItem("d1")
    \/ DeleterPatches("d1")
    \/ DeleterSweepsItem("d1")
    \/ DeleterDeletes("d1")
    \/ DeleterDone("d1")

ComposedSpec == Init /\ [][NextComposed]_vars


\* fetch_jobs iterated over one content of the namespace
NextOwned ==
    \E server \in NamespaceContents, job_definition_name \in {None, "g1"} :
        FetchJobsCall(server, job_definition_name)

OwnedSpec == Init /\ [][NextOwned]_vars


\* two threads call get on one YamlFileSpecSource while the file is written
\* and removed, every write leaving a later modification time than the one
\* before
InitMonotone == InitReload(FileSource, ReloadThreads)

\* a write that leaves a later modification time than the file had
RewriteLater(m) == m > file.mtime /\ Rewrite(m)

NextMonotone ==
    \/ \E m \in Mtimes : RewriteLater(m)
    \/ Remove
    \/ \E t \in DOMAIN caller : Reloading(t)

MonotoneSpec == InitMonotone /\ [][NextMonotone]_vars

----------------------------------------------------------------------------
(* Properties of JobDeleter and JobManager *)

\* the calls a step issues, read off the bookkeeping of the pass
DeleteIssued(j) == j \in pass'.delCalls \ pass.delCalls
PatchIssued(j) == j \in pass'.patched \ pass.patched
CallbackRaised(j) == j \in pass'.cbFailed \ pass.cbFailed

HasDeadline(annotations) == JOB_DELETION_TIME_ANNOTATION \in DOMAIN annotations
Deadline(annotations) == ParseInt(annotations[JOB_DELETION_TIME_ANNOTATION])

\* C1 Retention safety: cleanup_jobs never issues a backend delete for a job
\* at a time earlier than T + retention_period_sec, T being the time of the
\* mark pass that first annotated the job and retention_period_sec the value
\* passed to that pass.
RetentionSafety ==
    [][\A j \in Jobs :
         (DeleteIssued(j) /\ markDue[j] # -1) => now >= markDue[j]]_vars

\* C2 First mark wins: once a stored job carries the deletion-deadline
\* annotation, no later step of a mark pass, whatever its
\* retention_period_sec, issues a patch for the job, and the stored deadline
\* stays what it is for as long as the job exists.
FirstMarkWins ==
    [][\A j \in Jobs :
         (backend[j].state = "live" /\ HasDeadline(backend[j].annotations))
         => /\ ~PatchIssued(j)
            /\ backend'[j].state = "live"
               => backend'[j].annotations = backend[j].annotations]_vars

\* C2: a mark pass with retention 0 has come back having gone past a
\* finished job that an earlier pass had given a deadline of 1 or more
FirstMarkKept ==
    /\ pc = "done" /\ pass.kind = "mark" /\ result = "returned"
    /\ kwargs.retention_period_sec = 0
    /\ \E j \in Jobs :
         /\ backend[j].state = "live"
         /\ markDue[j] # -1
         /\ j \notin pass.patched
         /\ HasDeadline(backend[j].annotations)
         /\ Deadline(backend[j].annotations) >= 1

\* C3 Callback precedes deletion: whenever cleanup_jobs was given a
\* delete_callback and issues a backend delete for a job, the callback has
\* been invoked for that job earlier in the same sweep and has returned
\* without raising.
CallbackPrecedesDeletion ==
    [][\A j \in Jobs :
         (kwargs.delete_callback /\ DeleteIssued(j))
         => j \in pass.cbOk /\ j \notin pass.cbFailed]_vars

\* C3: a sweep with a callback has deleted a job
DeletedAfterCallback ==
    /\ pass.kind = "sweep" /\ kwargs.delete_callback
    /\ \E j \in pass.delCalls : backend[j].state = "gone"

\* C4 Callback fault isolation: when delete_callback raises for a candidate,
\* the sweep goes on to the next fetched job without raising and without a
\* delete for that job, whose stored annotation stays as it is during the
\* sweep; and a sweep whose backend calls all succeed returns normally having
\* gone through the whole listing and deleted every candidate whose callback
\* returned.
CallbackFaultIsolation ==
    /\ [][\A j \in Jobs :
            CallbackRaised(j)
            => /\ backend' = backend
               /\ pc' = "sweep_item" /\ page' = Tail(page) /\ more' = more
               /\ result' = result]_vars
    /\ [][\A j \in pass.cbFailed :
            /\ ~DeleteIssued(j)
            /\ (backend[j].state = "live" /\ backend'[j].state = "live")
               => backend'[j].annotations = backend[j].annotations]_vars
    /\ []((pc = "done" /\ pass.kind = "sweep" /\ ~pass.fault)
          => /\ result = "returned"
             /\ page = << >> /\ more = << >>
             /\ pass.cbFailed \cap pass.delCalls = {}
             /\ \A j \in pass.cbOk :
                  j \in pass.delCalls /\ backend[j].state = "gone")

\* C5 Backend fault isolation in the sweep: whatever the backend answers to
\* the delete of a candidate, a not-found included, cleanup_jobs does not
\* raise and goes on to the remaining fetched jobs.
BackendFaultIsolation ==
    [][\A j \in Jobs :
         DeleteIssued(j)
         => /\ pc' = "sweep_item" /\ page' = Tail(page) /\ more' = more
            /\ result' = result]_vars

\* C6 Loop fault isolation: no exception of any kind raised by an iteration
\* of the background loop ends the worker: it is caught and the worker goes
\* to its sleep, from which it comes back to the top of the loop; the worker
\* exits only at the top of the loop with stop requested.
LoopFaultIsolation ==
    /\ [](pc # "crashed")
    /\ [][(result' \notin {"none", "returned"}
           /\ result \in {"none", "returned"})
          => pc' = "sleep"]_vars
    /\ [][(pc' = "exited" /\ pc # "exited") => (stopped /\ pc = "top")]_vars
    /\ (pc = "sleep" /\ result \notin {"none", "returned"}) ~> (pc = "top")

\* C7 Cooperative stop with join: stop() leaves the worker where it is; the
\* worker leaves the loop only at its top, never from within an iteration;
\* the stop call eventually returns; and once it has returned the worker
\* thread has ended (it has left the loop at its top, or an exception that
\* run() does not catch had ended it) and takes no further step.
CooperativeStop ==
    /\ [][(stopPc = "none" /\ stopPc' = "joining")
          => /\ stopped'
             /\ pc' = pc /\ pass' = pass /\ page' = page /\ more' = more
             /\ backend' = backend]_vars
    /\ [][(pc' = "exited" /\ pc # "exited") => pc = "top"]_vars
    /\ [](stopPc = "returned" => pc \in {"exited", "crashed"})
    /\ [][stopPc = "returned"
          => pc' = pc /\ pass' = pass /\ page' = page /\ more' = more]_vars
    /\ (stopPc = "joining") ~> (stopPc = "returned")

\* C7: stop was requested while a delete was about to be issued
StopDuringIteration ==
    /\ stopPc = "joining" /\ stopped
    /\ pc = "sweep_del"

\* C8 as stated: cleanup_jobs issues a delete only for a job that is finished
\* (job_is_finished holds for it) and whose deadline has passed; an
\* unfinished job carrying a past annotation is not deleted.
DeletedOnlyIfFinished ==
    [][\A j \in Jobs :
         DeleteIssued(j)
         => \/ Truthy(job_is_finished(Head(page)))
            \/ Truthy(job_is_finished(backend[j]))]_vars

\* C8 as the code has it: cleanup_jobs issues a delete only for a fetched job
\* that carries the deletion-deadline annotation with the deadline passed; it
\* does not look at whether the job is finished, which is known only of a job
\* whose annotation a mark pass of the deleter wrote.
DeletedOnlyPastDeadline ==
    [][\A j \in Jobs :
         DeleteIssued(j)
         => LET job == Head(page) IN
            /\ job.name = j
            /\ HasDeadline(job.annotations)
            /\ Deadline(job.annotations) * TicksPerSec <= now
            /\ markDue[j] # -1 => Truthy(job_is_finished(job))]_vars

\* C8: a sweep without a fault has deleted a job that never finished
UnfinishedJobDeleted ==
    /\ pass.kind = "sweep" /\ ~pass.fault
    /\ \E j \in pass.delCalls :
         /\ backend[j].state = "gone"
         /\ ~Truthy(job_is_finished(backend[j]))

\* C9 mark_jobs_for_deletion patches exactly the fetched jobs that are
\* finished and not yet annotated, and the deadline a patch stores is
\* now + retention_period_sec, now being the time the mark read.
MarksExactlyFinished ==
    [][(/\ pc \in {"mark_item", "mark_patch"}
        /\ page # << >> /\ page' = Tail(page))
       => LET job == Head(page)
              j == job.name
              due == /\ Truthy(job_is_finished(job))
                     /\ ~HasDeadline(job.annotations)
          IN /\ PatchIssued(j) <=> due
             /\ backend'[j] # backend[j]
                => /\ due
                   /\ HasDeadline(backend'[j].annotations)
                   /\ Deadline(backend'[j].annotations) * TicksPerSec
                        = pass.clock
                          + kwargs.retention_period_sec * TicksPerSec]_vars

\* C10 job_is_finished returns true if and only if some condition has
\* status "True" and type Complete or Failed, and false for anything else:
\* empty or absent conditions, only completion_time set, any other status,
\* any other type.
JobIsFinishedBool ==
    fin_out # "unset"
    => LET conds == fin_in.status.conditions IN
       fin_out = IF \E i \in 1..Len(conds) :
                       /\ conds[i].status = "True"
                       /\ conds[i].type \in {"Complete", "Failed"}
                 THEN "True" ELSE "False"

\* C11 is_candidate_for_deletion returns true if and only if the
\* deletion-deadline annotation is present and now >= deadline, the boundary
\* now = deadline included; it returns false when the annotations are absent
\* or empty and for every future deadline.
IsCandidateIff ==
    (call.fn = "is_candidate_for_deletion" /\ ret # "unset")
    => LET metadata == call.metadata
           present == /\ metadata.has_annotations
                      /\ JOB_DELETION_TIME_ANNOTATION \in DOMAIN metadata.annotations
       IN ret = IF present /\ call.t >= Deadline(metadata.annotations) * TicksPerSec
                THEN "True" ELSE "False"

\* C11: the call was made at the very second of a deadline of 1 or more
\* and returned true
CandidateAtBoundary ==
    /\ call.fn = "is_candidate_for_deletion" /\ ret = "True"
    /\ call.metadata.has_annotations
    /\ HasDeadline(call.metadata.annotations)
    /\ Deadline(call.metadata.annotations) >= 1
    /\ call.t = Deadline(call.metadata.annotations) * TicksPerSec

\* C12 fetch_jobs follows the continuation tokens until a page comes without
\* one: at every point the list calls made are one per page got so far, the
\* first without a token and each further one with the token of the page
\* before; the items yielded are those of the pages got, each once, in page
\* order and in the order of the page; and it ends exactly when the last page
\* of the server has been yielded, with no list call beyond it.
FetchFollowsTokens ==
    fetch.st \in {"yield", "done"}
    => LET n == Len(fetch.calls)
           got == SubSeq(fetch.script, 1, n)
       IN /\ n >= 1 /\ n <= Len(fetch.script)
          /\ \A i \in 1..n : fetch.calls[i] = i - 1
          /\ fetch.yielded \o fetch.rest = AllItems(got)
          /\ fetch.token = fetch.script[n].token
          /\ fetch.st = "done"
             => /\ n = Len(fetch.script)
                /\ fetch.yielded = AllItems(fetch.script)

\* C12: fetch_jobs has ended after three pages, the middle one empty, with
\* the items of the first and the last page yielded
FetchedThreePages ==
    /\ fetch.st = "done"
    /\ Len(fetch.script) = 3
    /\ Len(fetch.script[1].items) = 2
    /\ Len(fetch.script[2].items) = 0
    /\ Len(fetch.script[3].items) = 1
    /\ fetch.yielded = <<1, 2, 3>>
    /\ fetch.calls = <<0, 1, 2>>

\* the outcome of the create_job call made last
CreateFailed(c, r, classes) == c.fn = "create_job" /\ r.exc \in classes

\* C13 create_job with a definition name the register does not know raises
\* NotFoundException, and a create_job that fails at resolution
\* (NotFoundException) or at template rendering (UndefinedError) makes no
\* create call: the calls the backend has received are as before.
CreateFailsBeforeBackend ==
    /\ []((call.fn = "create_job" /\ ~call.pre_create
           /\ call.job_definition_name \notin DefNames)
          => ret.exc = "NotFoundException")
    /\ [][CreateFailed(call', ret', {"NotFoundException", "UndefinedError"})
          => mgr'.calls = mgr.calls]_vars

\* C13: after a job has been created, create_job("unknown") has raised
\* NotFoundException
UnknownDefinitionRefused ==
    /\ call.fn = "create_job" /\ call.job_definition_name = "unknown"
    /\ ret.exc = "NotFoundException"
    /\ Len(mgr.calls) = 1 /\ mgr.calls[1].answer = "created"

\* C14 Sign/selector round trip: every document create_job(definition_name)
\* submits carries the ownership label with the manager's signature and the
\* job-definition-name label equal to definition_name, so label_selector()
\* and label_selector(definition_name) of the signer match it and
\* label_selector(other_name) matches it for no other name.
SignSelectorRoundTrip ==
    \A i \in 1..Len(mgr.calls) :
       LET d == mgr.calls[i].definition
           labels == mgr.calls[i].body.labels
       IN /\ mgr.calls[i].body.has_labels
          /\ LABEL_KEY \in DOMAIN labels /\ labels[LABEL_KEY] = Signature
          /\ JOB_DEFINITION_NAME_KEY \in DOMAIN labels
          /\ labels[JOB_DEFINITION_NAME_KEY] = d
          /\ Matches(label_selector(Signature, None), labels)
          /\ Matches(label_selector(Signature, d), labels)
          /\ \A other \in AskedNames \ {d} :
                ~Matches(label_selector(Signature, other), labels)

\* C15 create_job accepts an optional pre_create hook: a call that is given
\* one and gets as far as a generated and signed job invokes the hook exactly
\* once, before the create call, and raises nothing of its own on account of
\* the argument.
PreCreateHookInvoked ==
    (call.fn = "create_job" /\ call.pre_create
     /\ call.job_definition_name \in DefNames /\ call.has_args)
    => ret.exc # "TypeError" /\ ret.hooked = 1

\* C16 for a template name of any length generate returns prefix "-" suffix,
\* the prefix being the first min(len(name), 63 - 1 - 2*SUFFIX_BYTES)
\* characters of the template name and the suffix 2*SUFFIX_BYTES hex
\* characters: never more than 63 characters, exactly 63 when the template
\* name has 38 or more, and len(name) + 1 + 2*SUFFIX_BYTES otherwise.
GeneratedNameShape ==
    call.fn = "generate"
    => LET name == call.name
           k == IF Len(name) < 63 - 1 - 2 * 12 THEN Len(name) ELSE 63 - 1 - 2 * 12
       IN /\ Len(ret) = k + 1 + 2 * 12
          /\ \A i \in 1..k : ret[i] = name[i]
          /\ ret[k + 1] = "-"
          /\ \A i \in (k + 2)..Len(ret) :
                \E h \in 1..16 : ret[i] = HexDigits[h]
          /\ Len(ret) <= 63
          /\ Len(name) >= 38 => Len(ret) = 63
          /\ Len(name) < 38 => Len(ret) = Len(name) + 1 + 24

\* C16: a name of 63 characters has been generated from a template name of
\* more than 38
LongNameCut ==
    /\ call.fn = "generate" /\ Len(call.name) > 38
    /\ Len(ret) = 63

\* C17 as stated: repeated calls of generate against the same template
\* always yield distinct names, so no two jobs submitted by create_job share
\* a name.
GeneratedNamesDistinct ==
    \A i, j \in 1..Len(mgr.calls) :
       i # j => mgr.calls[i].body.name # mgr.calls[j].body.name

\* C17 as the code has it: two names generated from one template are equal
\* exactly when secrets.token_hex drew the same random bytes for both; names
\* generated with different draws are distinct.
GeneratedNamesDifferWithDraws ==
    \A i, j \in 1..Len(mgr.calls) :
       mgr.calls[i].definition = mgr.calls[j].definition
       => (mgr.calls[i].body.name = mgr.calls[j].body.name
           <=> mgr.calls[i].drawn = mgr.calls[j].drawn)

\* C17: two jobs of one definition have been submitted with different draws
TwoDrawsTwoNames ==
    /\ Len(mgr.calls) = 2
    /\ mgr.calls[1].definition = mgr.calls[2].definition
    /\ mgr.calls[1].drawn # mgr.calls[2].drawn
    /\ mgr.calls[1].body.name # mgr.calls[2].body.name


\* C18 Template isolation: StaticSpecSource.get ignores template_args and
\* hands out a copy, so after any sequence of create_job calls, each of which
\* renames and signs the document generate returned, the document the static
\* source holds is the one it was constructed with; every submitted name is
\* the original template name followed by one suffix.
TemplateIsolation ==
    mgr # NoManager =>
      /\ \A d \in DefNames :
            SourceKind(d) = "static" => mgr.heap[d] = TemplateDoc(d)
      /\ \A i \in 1..Len(mgr.calls) :
            SourceKind(mgr.calls[i].definition) = "static"
            => mgr.calls[i].body.name
               = GeneratedName(TemplateDoc(mgr.calls[i].definition).name,
                               mgr.calls[i].drawn)
      /\ \A d \in DefNames, bytes \in RandomBytes(SUFFIX_BYTES) :
            SourceKind(d) = "static"
            => generate(mgr.heap, d, TRUE, bytes)
               = generate(mgr.heap, d, FALSE, bytes)

\* C18: two jobs of the static definition have been generated, renamed,
\* signed and submitted, and the working copy differs from the template
TemplateKeptAfterTwoJobs ==
    /\ Len(mgr.calls) = 2
    /\ mgr.calls[1].definition = "g1" /\ mgr.calls[2].definition = "g1"
    /\ mgr.heap["W"].has_labels /\ ~mgr.heap["g1"].has_labels
    /\ mgr.heap["W"].name # mgr.heap["g1"].name

\* C19 sign is idempotent: for every job document, with or without a labels
\* mapping, and every definition name, the second of two sign calls with the
\* same signer and definition name leaves the labels as the first call left
\* them, and raises what the first raised.
SignIdempotent ==
    [][(call'.fn = "sign" /\ call'.times = 2)
       => /\ ret'.job.has_labels = ret.job.has_labels
          /\ ret'.job.labels = ret.job.labels
          /\ ret'.exc = ret.exc]_vars

\* C19: a dict with labels of its own, another signer's ownership label and
\* an older definition label has been signed twice for definition g1
SignedTwice ==
    /\ call.fn = "sign" /\ call.times = 2
    /\ call.job.kind = "dict" /\ call.job.has_labels
    /\ DOMAIN call.job.labels = LabelKeys
    /\ call.job_definition_name = "g1"
    /\ ret.exc = "none"
    /\ ret.job.labels[LABEL_KEY] = Signature
    /\ ret.job.labels[JOB_DEFINITION_NAME_KEY] = "g1"
    /\ ret.job.labels["team"] = "data"

\* the terms the extra filters add, in the order supplied
RECURSIVE ExtraTerms(_)
ExtraTerms(extra) ==
    IF extra = << >> THEN << >>
    ELSE <<",", Head(extra), "=", ExtraValue(Head(extra))>>
         \o ExtraTerms(Tail(extra))

\* C20 label_selector(job_definition_name=None, **extra) returns the
\* comma-joined text whose first term is the ownership label, whose second
\* term is the job-definition label exactly when a definition name is given,
\* and whose remaining terms are the extra filters in the order supplied,
\* however the definition name is passed.
SelectorCoversExtras ==
    call.fn = "label_selector"
    => /\ ret.exc = "none"
       /\ ret.value = <<LABEL_KEY, "=", Signature>>
                      \o (IF StrTruthy(call.job_definition_name)
                          THEN <<",", JOB_DEFINITION_NAME_KEY, "=",
                                 call.job_definition_name>>
                          ELSE << >>)
                      \o ExtraTerms(call.extra)

\* C21 FileReloader change detection: a check whose stat still is the
\* file's yields nothing when the file's modification time equals the last
\* committed one, and otherwise, the modification time differing from the
\* last committed one, goes on to open the file and yield its content.
ChangeDetection ==
    [][\A t \in DOMAIN caller :
          (/\ caller[t].pc = "check" /\ caller'[t].pc # "check"
           /\ file.exists /\ caller[t].st_mtime = file.mtime)
          => (caller'[t].pc = "after" <=> file.mtime = reloader.last)]_vars

\* C22 FileReloader compare-and-swap commit: a caller's commit takes effect,
\* storing its observed modification time and running its callback, only if
\* the committed modification time still is the one the caller read before
\* opening the file; otherwise it changes nothing and runs no callback. No
\* modification time is committed twice, and the commit, callback included,
\* happens with the reloader's lock held by the committing thread.
CompareAndSwapCommit ==
    [][/\ \A t \in DOMAIN caller :
            (caller[t].pc = "cas" /\ caller'[t].pc = "after")
            => /\ reloader.lock = t
               /\ IF caller[t].last_modified = reloader.last
                  THEN /\ reloader'.last = caller[t].st_mtime
                       /\ caller[t].st_mtime \notin reloader.done
                       /\ caller[t].update_callback = "callback"
                          => owner'.loaded /\ owner'.cached = caller[t].got
                  ELSE reloader'.last = reloader.last /\ owner' = owner
       /\ (owner' # owner \/ reloader'.last # reloader.last)
          => reloader.lock \in DOMAIN caller]_vars

\* C22: two threads read the same committed time and the same file; r1 has
\* committed with its callback, and the commit of r2 has changed nothing
SecondCommitIsNoOp ==
    /\ caller["r1"].pc = "after" /\ caller["r1"].swapped
    /\ caller["r2"].pc = "after" /\ ~caller["r2"].swapped
    /\ caller["r1"].update_callback = "callback"
    /\ caller["r2"].update_callback = "callback"
    /\ caller["r1"].last_modified = caller["r2"].last_modified
    /\ caller["r1"].st_mtime = caller["r2"].st_mtime
    /\ owner.cached = caller["r1"].got

\* C23 A missing file is not an error for FileReloader: a check whose stat
\* finds no file raises nothing and yields nothing, and leaves the committed
\* modification time and what the holder has cached as they were.
MissingFileIsNoError ==
    [][\A t \in DOMAIN caller :
          /\ (caller[t].pc = "stat" /\ ~file.exists /\ caller'[t] # caller[t])
             => /\ caller'[t].pc = "after"
                /\ ~caller'[t].opened
                /\ reloader' = reloader /\ owner' = owner
          /\ (caller[t].pc = "after" /\ caller[t].st_mtime = 0
              /\ caller'[t].pc = "idle")
             => /\ caller'[t].out = [exc |-> "none", value |-> FALSE]
                /\ reloader' = reloader /\ owner' = owner]_vars

\* C23: a reload has been committed and cached, the file has gone, and a
\* check has found it missing
CheckedWhileMissing ==
    /\ ~file.exists
    /\ owner.loaded /\ owner.cached > 0 /\ reloader.last > 0
    /\ caller["r1"].pc = "after" /\ caller["r1"].st_mtime = 0

\* C24 File-backed spec source cache: a get that finds the file's
\* modification time as last committed does not read the file and renders
\* the cached template; the first get after a rewrite that changed the
\* modification time reads the file and renders the new content; and a get
\* never renders anything older than the content of the last committed
\* reload.
FileSourceCache ==
    [][\A t \in DOMAIN caller :
          (/\ caller[t].op = "get" /\ caller[t].pc = "after"
           /\ caller'[t].pc = "idle" /\ owner.loaded /\ file.exists)
          => /\ caller'[t].out = [exc |-> "none", value |-> owner.cached]
             /\ file.mtime = caller[t].last_modified => ~caller[t].opened
             /\ file.mtime # caller[t].last_modified
                => /\ caller[t].opened
                   /\ caller'[t].out.value = file.content]_vars

\* C29 A file-backed spec source whose file does not exist, and for which
\* nothing was ever loaded, fails get with NotFoundException and with no
\* other error.
MissingFileIsNotFound ==
    [][\A t \in DOMAIN caller :
          (/\ caller[t].op = "get" /\ caller[t].pc = "after"
           /\ caller'[t].pc = "idle" /\ ~owner.loaded /\ ~file.exists)
          => caller'[t].out.exc = "NotFoundException"]_vars

\* the spec sources a definition has set: inline spec, spec_path, config map
SourcesSet(jd) ==
    {f \in {"spec", "spec_path", "spec_config_map_name"} : jd[f] # None}

\* C28 A JobDefinition must have exactly one of its spec sources set: one
\* with none set or with more than one set is rejected with an error when
\* its spec source is resolved (its construction rejects nothing), and does
\* not resolve to some source.
ExactlyOneSpecSource ==
    (call.fn = "spec_source" /\ Cardinality(SourcesSet(call.jd)) # 1)
    => ret.exc # "none"

\* C25 ReloadingJobDefinitionsRegister: every get_generator call begins with
\* a reload check; a reload that is committed replaces the whole mapping by
\* the mapping of the manifest read, merging nothing; and the call resolves
\* its name in the mapping as it then is, so that the call that committed a
\* reload already fails with NotFoundException for a name only the old
\* manifest had and resolves a name only the new manifest has.
ReplaceNotMerge ==
    [][\A t \in DOMAIN caller :
          /\ (caller[t].pc = "idle" /\ caller'[t].pc # "idle")
             => caller'[t].pc = "stat"
          /\ (caller[t].pc = "cas" /\ caller'[t].swapped)
             => /\ owner'.loaded
                /\ owner'.cached = Manifest(caller[t].got)
          /\ (/\ caller[t].op = "get_generator" /\ caller[t].pc = "after"
              /\ caller'[t].pc = "idle" /\ owner.loaded)
             => /\ caller'[t].out.exc
                   = (IF caller[t].arg \in owner.cached
                      THEN "none" ELSE "NotFoundException")
                /\ (caller[t].swapped /\ reloader.last = caller[t].st_mtime)
                   => (caller'[t].out.exc = "none"
                       <=> caller[t].arg \in Manifest(caller[t].got))]_vars

\* C25: a get_generator("c") call has found the second manifest, which no
\* longer lists c, and has committed it over the first
ReloadedWithinCall ==
    /\ owner.kind = Register
    /\ caller["r1"].op = "get_generator" /\ caller["r1"].arg = "c"
    /\ caller["r1"].pc = "after" /\ caller["r1"].swapped
    /\ caller["r1"].got = 2 /\ caller["r1"].last_modified > 0
    /\ owner.cached = Manifest(2)

\* C26 Atomic mapping swap: at every moment of a concurrent reload the
\* mapping of a loaded register is the complete mapping of one version of
\* the manifest that was written, never a mixture of two or a part of one;
\* a swap replaces the complete mapping of one version by that of another;
\* and a get_generator call that ends resolves its name against the complete
\* mapping stored before or after the swap.
AtomicMappingSwap ==
    /\ [](owner.kind = Register /\ owner.loaded
          => \E v \in 1..file.content : owner.cached = Manifest(v))
    /\ [][\A t \in DOMAIN caller :
            /\ (caller[t].pc = "cas" /\ caller'[t].swapped /\ owner.loaded)
               => \E old, new \in Versions :
                     /\ owner.cached = Manifest(old)
                     /\ owner'.cached = Manifest(new)
            /\ (/\ caller[t].op = "get_generator" /\ caller[t].pc = "after"
                /\ caller'[t].pc = "idle" /\ owner.loaded)
               => \E v \in Versions :
                     /\ owner.cached = Manifest(v)
                     /\ caller'[t].out.exc = "none"
                        <=> caller[t].arg \in Manifest(v)]_vars

\* C26: one thread has swapped the mapping in while a get_generator call of
\* the other thread, begun under the old mapping, has yet to look its name up
SwapDuringCall ==
    /\ owner.kind = Register
    /\ caller["r1"].pc = "after" /\ caller["r1"].swapped
    /\ caller["r1"].last_modified > 0
    /\ caller["r2"].op = "get_generator" /\ caller["r2"].pc = "after"
    /\ caller["r2"].last_modified > 0
    /\ caller["r2"].last_modified < reloader.last

\* C27 For every name listed in the loaded manifest, get_generator of a
\* ReloadingJobDefinitionsRegister returns a JobGenerator (the object whose
\* generate gives the document its suffixed name).
RegisterYieldsGenerators ==
    [][\A t \in DOMAIN caller :
          (/\ owner.kind = Register /\ owner.loaded
           /\ caller[t].op = "get_generator" /\ caller[t].pc = "after"
           /\ caller'[t].pc = "idle"
           /\ caller[t].arg \in owner.cached)
          => /\ caller'[t].out.exc = "none"
             /\ caller'[t].out.value = "JobGenerator"]_vars

\* the names a call binds
BoundNames(template_args) == DOMAIN OrEmpty(template_args)

\* the variables a template declares: those it names anywhere
DeclaredVars(spec) ==
    {x \in TemplateVars : \E i \in 1..Len(spec) : spec[i].var = x}

\* the arguments of a call without the keys the template does not name
WithoutExtras(spec, template_args) ==
    [is_none |-> FALSE,
     dict |-> [x \in BoundNames(template_args) \cap DeclaredVars(spec)
                 |-> OrEmpty(template_args)[x]]]

\* a piece that uses the value of its variable: every piece that names one,
\* but for the default filter and the defined test
NeedsValue(piece) == piece.kind \in {"print", "if", "for", "eq", "add", "attr"}

\* a piece that uses an undefined value in a call: the variable it needs is
\* unbound, or it prints an attribute that the bound value does not have
UsesUndefined(piece, template_args) ==
    /\ NeedsValue(piece)
    /\ piece.var \notin BoundNames(template_args) \/ piece.kind = "attr"

\* a piece that applies to a bound value an operation the value does not
\* support: a loop over None or a number, a sum of a number and a string
\* or None
Unsupported(piece, template_args) ==
    /\ piece.var \in BoundNames(template_args)
    /\ LET type == OrEmpty(template_args)[piece.var].type
       IN \/ piece.kind = "for" /\ type # "str"
          \/ piece.kind = "add" /\ type # "int"

\* a piece that puts the text of a bound value into the document
Inserts(piece, template_args) ==
    /\ piece.kind \in {"print", "default", "if_defined", "for"}
    /\ piece.var \in BoundNames(template_args)

\* the first piece of a call that raises while the template is rendered, 0
\* if none does
FirstRaising(spec, template_args) ==
    LET raising == {i \in 1..Len(spec) :
                       \/ UsesUndefined(spec[i], template_args)
                       \/ Unsupported(spec[i], template_args)}
    IN  IF raising = {} THEN 0
        ELSE CHOOSE i \in raising : \A j \in raising : i <= j

\* C30 as stated: get succeeds if and only if every variable the template
\* declares is bound in template_args.
StrictTemplateBinding ==
    call.fn = "get"
    => (ret.exc = "none"
        <=> DeclaredVars(call.spec) \subseteq BoundNames(call.template_args))

\* C30 amended: for a template that parses, get fails with UndefinedError
\* exactly when the first piece to raise uses an undefined value (an unbound
\* variable, or a missing attribute of a bound one) otherwise than through
\* the default filter or the defined test, and with TypeError exactly when
\* that piece applies an operation its bound value does not support; a
\* rendering in which no piece raises fails with YAMLError exactly when a
\* bound value it inserts is not YAML, and succeeds otherwise. So a call
\* that leaves a needed variable unbound never succeeds, a call may succeed
\* with a declared variable unbound, and a call may fail with every declared
\* variable bound. A failed call returns no value; a printed variable loads
\* as the text of the value bound to it; keys the template does not name
\* change nothing; a template that does not parse fails get and
\* template_vars with TemplateSyntaxError, and for one that parses
\* template_vars returns the declared variables, whatever is bound.
StrictBindingOfPrintedVariables ==
    /\ call.fn = "get"
       => LET spec == call.spec
              args == call.template_args
              first == FirstRaising(spec, args)
          IN /\ ~Parses(spec) <=> ret.exc = "TemplateSyntaxError"
             /\ Parses(spec)
                => /\ ret.exc = "UndefinedError"
                      <=> (first # 0 /\ UsesUndefined(spec[first], args))
                   /\ ret.exc = "TypeError"
                      <=> (first # 0 /\ ~UsesUndefined(spec[first], args))
                   /\ ret.exc = "YAMLError"
                      <=> /\ first = 0
                          /\ \E i \in 1..Len(spec) :
                                /\ Inserts(spec[i], args)
                                /\ OrEmpty(args)[spec[i].var].text = "["
                   /\ ret.exc \in {"none", "UndefinedError", "TypeError",
                                   "YAMLError"}
             /\ (\E i \in 1..Len(spec) :
                    NeedsValue(spec[i]) /\ spec[i].var \notin BoundNames(args))
                => ret.exc # "none"
             /\ ret.exc # "none" => ret.value = << >>
             /\ ret.exc = "none"
                => \A i \in 1..Len(spec) :
                      spec[i].kind = "print"
                      => ret.value[i].text = OrEmpty(args)[spec[i].var].text
             /\ ret = YamlStringGet(spec, WithoutExtras(spec, args))
    /\ call.fn = "template_vars"
       => /\ Parses(call.spec) <=> ret.exc = "none"
          /\ ~Parses(call.spec) => ret.exc = "TemplateSyntaxError"
          /\ Parses(call.spec) => ret.value = DeclaredVars(call.spec)

\* C30: a template that prints u and gives v a default rendered with u and
\* a key it does not name bound, and v unbound
RenderedWithDefaultAndExtra ==
    /\ call.fn = "get"
    /\ \E i, j \in 1..Len(call.spec) :
          /\ call.spec[i] = [kind |-> "print", var |-> "u"]
          /\ call.spec[j] = [kind |-> "default", var |-> "v"]
    /\ BoundNames(call.template_args) = {"u", "other"}
    /\ ret.exc = "none"

\* C31 Error remapping on direct calls: delete_job and read_job raise
\* NotFoundException exactly for an ApiException of status 404, raise every
\* other fault of the backend as it came and return when the backend
\* succeeds; delete_job asks for foreground propagation and addresses the
\* job by its name and the namespace of the manager.
DirectCallRemap ==
    call.fn \in {"delete_job", "read_job"}
    => /\ ret.exc = (IF call.answer = ApiException(404)
                     THEN NotFoundException ELSE call.answer)
       /\ call.request.name = call.job.name
       /\ call.request.namespace = call.namespace
       /\ call.fn = "delete_job"
          => /\ call.request.api = "delete_namespaced_job"
             /\ call.request.propagation_policy = "Foreground"
             /\ ret.value = None

\* C31: delete_job on a job whose document names another namespace than the
\* manager's has been answered with a server error, which came out as it was
DeleteFaultPropagated ==
    /\ call.fn = "delete_job"
    /\ call.job.namespace # call.namespace
    /\ call.answer = ApiException(500)
    /\ ret.exc = ApiException(500)

\* C32 job_logs returns logs for every pod of the job: when the pods are
\* listed, the call does not raise whatever the log fetches answer; a pod
\* whose log was fetched has its log in the result, also when the fetch for
\* another pod failed; and a pod whose container is still being created has
\* a placeholder of its own in the result.
JobLogsCollectsAll ==
    (call.fn = "job_logs" /\ call.list_answer = NoException)
    => /\ ret.exc = NoException
       /\ \A i \in 1..Len(call.pods) :
             /\ call.pods[i].answer.exc = NoException
                => \E k \in 1..Len(ret.value) : ret.value[k] = PodLog(i)
             /\ SkipsPod(call.pods[i].answer)
                => \E k \in 1..Len(ret.value) :
                      /\ ret.value[k].pod = i
                      /\ ret.value[k].text = "ContainerCreating"

\* the jobs of the namespace under the background loop
LoopJobs == 1..MaxLoopJobs

\* a stored job in a terminal state
Finished(j) ==
    /\ backend[j].state = "live"
    /\ Truthy(job_is_finished(Job(j, backend[j].status, backend[j].annotations)))

\* a stored job whose deadline has passed
Due(j) ==
    /\ backend[j].state = "live"
    /\ is_candidate_for_deletion(
           Job(j, backend[j].status, backend[j].annotations), now)

\* the loop keeps running: iterations begin again and again
KeepsRunning == []<>(mode = "loop" /\ pc = "mark_list")

\* the faults are transient: from some time on no list, patch or delete
\* call fails and no delete callback raises
FaultsCease == <>[](~pass.fault /\ pass.cbFailed = {})

\* a stored job in a terminal state that the loop has work to do on: it
\* carries no deadline yet, or its deadline has passed
Reclaimable(j) ==
    Finished(j) /\ (~HasDeadline(backend[j].annotations) \/ Due(j))

\* C33 Eventual reclamation: while the cleanup loop keeps running, and
\* provided the list, patch and delete calls and the delete callback
\* eventually succeed, every stored job in a terminal state that carries no
\* deadline eventually carries one (or is gone), and every such job whose
\* deadline has passed is eventually gone; this holds from every state, so
\* also after a sweep in which the patch or the delete of the job failed.
EventualReclamation ==
    (KeepsRunning /\ FaultsCease)
    => \A j \in LoopJobs :
          Reclaimable(j)
          ~> (\/ backend[j].state # "live"
              \/ HasDeadline(backend[j].annotations) /\ ~Due(j))

\* C33: in an iteration of the loop the delete of a finished job whose
\* deadline has passed has failed, and the job is still stored
DeleteFailedInSweep ==
    /\ mode = "loop" /\ pc = "sweep_item" /\ ~stopped
    /\ pass.kind = "sweep" /\ pass.fault
    /\ \E j \in pass.delCalls : Finished(j) /\ Due(j)

\* C34 Iterations of one cleanup loop never overlap and are paced end to
\* end: an iteration begins only at the top of the loop, where no pass is in
\* progress, and the top is reached again only through the sleep; the sleep
\* after an iteration lasts max(0, interval_sec - elapsed), so that the
\* worker wakes no earlier than interval_sec after the start of the
\* iteration, exactly then when the iteration was shorter, and at once when
\* it was longer; the next iteration starts no earlier than the wake-up.
PacedIterations ==
    /\ [](pc = "top" => pass.kind = "none")
    /\ [][(pc' = "mark_list" /\ pc # "mark_list")
          => (pc = "top" /\ start' = now /\ now >= start)]_vars
    /\ [][(pc' = "top" /\ pc # "top") => (pc = "asleep" /\ now >= start)]_vars
    /\ [][(pc' = "asleep" /\ pc # "asleep")
          => LET elapsed == now - start
                 interval == Secs(kwargs.interval_sec)
             IN  /\ pc = "sleep"
                 /\ start' = now + Max(0, interval - elapsed)
                 /\ start' >= start + interval
                 /\ elapsed < interval => start' = start + interval
                 /\ elapsed >= interval => start' = now]_vars

\* C34: an iteration that began at time 0 with an interval of one second
\* has ended before the second was over, and the worker sleeps the rest
SleepsTheRemainder ==
    /\ mode = "loop" /\ pc = "asleep" /\ kwargs.interval_sec = 1
    /\ now > 0 /\ now < Secs(1) /\ start = Secs(1)


\* C35 Commit only after successful consumption: when the holder's call
\* ends between being handed the file and sending its callback, which it
\* does only by an exception, whatever the class, the committed modification
\* time and the stored mapping or template are left exactly as they were,
\* the call returns nothing, and the modification
\* time the failed check saw is still later than the committed one unless
\* another thread has committed meanwhile; and every check that sees a
\* modification time later than the committed one opens the file.
CommitAfterConsumption ==
    [][\A t \in DOMAIN caller :
          /\ (caller[t].pc = "read" /\ caller'[t].pc = "idle")
             => /\ caller'[t].out.exc # "none"
                /\ caller'[t].out.value = "none"
                /\ reloader' = reloader
                /\ owner' = owner
                /\ reloader.last = caller[t].last_modified
                   => ~Unmodified(caller[t].st_mtime, reloader'.last)
          /\ (/\ caller[t].pc = "check" /\ caller'[t].pc # "check"
              /\ ~Unmodified(caller[t].st_mtime, reloader.last))
             => caller'[t].pc = "open"]_vars

\* C35: one get_generator call has failed on the second manifest, the
\* mapping of the first is still stored and the committed time is still the
\* first manifest's, and another call has been handed the second manifest
ConsumerFailedAndFileYieldedAgain ==
    /\ owner.kind = Register /\ owner.loaded
    /\ caller["r1"].pc = "idle"
    /\ caller["r1"].out.exc = "TypeError"
    /\ file.exists /\ file.content = 2
    /\ owner.cached = Manifest(1)
    /\ reloader.last < file.mtime
    /\ caller["r2"].pc = "read" /\ caller["r2"].opened
    /\ caller["r2"].st_mtime = file.mtime

\* C36 Deadline immutability under concurrent markers: when the marking
\* passes of two deleters interleave on one backend, the deadline annotation
\* stored for a job never changes once a first value has been stored; a
\* patch from the deleter that listed the job before the first annotation
\* landed does not overwrite it.
DeadlineImmutableUnderMarkers ==
    [][\A j \in Jobs :
          (/\ backend[j].state = "live"
           /\ HasDeadline(backend[j].annotations)
           /\ backend'[j].state = "live")
          => backend'[j].annotations = backend[j].annotations]_vars

\* C37 Ownership scoping: every list call that fetch_jobs issues, the first
\* and every continuation call alike, carries the signer's label selector,
\* and every job that fetch_jobs yields, and so every job that
\* mark_jobs_for_deletion and cleanup_jobs act on, carries this manager's
\* ownership label.
OwnershipScoping ==
    call.fn = "fetch_jobs"
    => /\ \A i \in 1..Len(ret.requests) :
             ret.requests[i].label_selector
               = label_selector(Signature, call.job_definition_name)
       /\ \A i \in 1..Len(ret.yielded) :
             /\ LABEL_KEY \in DOMAIN ret.yielded[i].labels
             /\ ret.yielded[i].labels[LABEL_KEY] = Signature

\* C38 Reload monotonicity: when every rewrite of the file leaves a later
\* modification time, then over every interleaving of two threads' checks
\* and commits the committed modification time never decreases and the
\* stored content never goes back to an older text of the file; a thread
\* that read an older text than the one stored does not get its commit
\* through.
ReloadMonotonicity ==
    [][/\ reloader'.last >= reloader.last
       /\ owner.loaded => owner'.cached >= owner.cached
       /\ \A t \in DOMAIN caller :
             (/\ caller[t].pc = "cas" /\ owner.loaded
              /\ caller[t].got < owner.cached)
             => /\ ~caller'[t].swapped
                /\ owner' = owner
                /\ reloader'.last = reloader.last]_vars

\* C38: the first thread read the first text and was overtaken; the second
\* thread has committed the second text, and the first thread's
\* compare-and-swap has failed, leaving the second text stored
SlowReloaderRejected ==
    /\ owner.kind = FileSource /\ owner.loaded
    /\ caller["r1"].pc = "after" /\ caller["r1"].update_callback = "callback"
    /\ ~caller["r1"].swapped
    /\ caller["r1"].got = 1
    /\ owner.cached = 2
    /\ reloader.last > caller["r1"].last_modified

\* the call of deleter d1 in progress or made last
Composed == call.of["d1"]

\* a step ends a mark_and_delete_old_jobs call in which no backend call failed
ComposedCallEnds ==
    /\ call.fn = "deleters"
    /\ Composed.op = "mark_and_delete_old_jobs"
    /\ Composed.pc \in {"sweep_items", "sweep_delete"}
    /\ Composed'.pc = "idle"
    /\ ~Composed'.fault

\* C39 as stated: a mark_and_delete_old_jobs call without faults and with
\* retention_period_sec = 0 has deleted every job that was finished when it
\* was made and every job it has marked, and with a positive
\* retention_period_sec it has deleted none of the jobs it has marked.
MarkAndDeleteInOneCall ==
    [][ComposedCallEnds
       => IF Composed.retention_period_sec = 0
          THEN /\ Composed'.seen \subseteq Composed'.deleted
               /\ DOMAIN Composed'.marked \subseteq Composed'.deleted
          ELSE DOMAIN Composed'.marked \cap Composed'.deleted = {}]_vars

\* C39 amended: a mark_and_delete_old_jobs call without faults and with
\* retention_period_sec = 0 has marked every job that was finished and not
\* yet annotated when it was made and has deleted every job it has marked;
\* and whatever the retention period, the call deletes a job it has marked
\* only when more than retention_period_sec - 1 seconds have passed since
\* the mark read the clock for the job, so none when the clock has not moved
\* since.
MarkAndDeleteUnlessClockMoves ==
    [][/\ ComposedCallEnds
          => (Composed.retention_period_sec = 0
              => /\ Composed'.unmarked \subseteq DOMAIN Composed'.marked
                 /\ DOMAIN Composed'.marked \subseteq Composed'.deleted)
       /\ (call.fn = "deleters" /\ Composed.pc = "sweep_delete")
          => \A j \in (Composed'.deleted \ Composed.deleted)
                        \cap DOMAIN Composed.marked :
                /\ now - Composed.marked[j]
                     > Secs(Composed.retention_period_sec) - TicksPerSec
                /\ Composed.retention_period_sec > 0
                   => now > Composed.marked[j]]_vars

\* C39: a call with retention_period_sec = 0 and no fault has ended; two
\* jobs were finished and unannotated when it was made, and it has marked
\* and deleted both
MarkedAndDeletedAtOnce ==
    /\ call.fn = "deleters"
    /\ Composed.pc = "idle" /\ Composed.op = "mark_and_delete_old_jobs"
    /\ Composed.retention_period_sec = 0 /\ ~Composed.fault
    /\ Composed.unmarked = {1, 2}
    /\ DOMAIN Composed.marked = {1, 2}
    /\ Composed.deleted = {1, 2}
    /\ \A j \in {1, 2} : backend[j].state = "gone"

\* the labels of a document before it is signed: none when it has no mapping
LabelsBefore(job) == IF job.has_labels THEN job.labels ELSE NoLabels

\* C40 sign changes nothing but the two reserved label keys: every sign call
\* leaves the document with a labels mapping in which the ownership label is
\* the signer's signature, the job-definition-name label is the name given
\* or, when none is given, what it was before, and every other label is what
\* it was before; and the other fields of the document are unchanged.
SignFrame ==
    (call.fn = "sign" /\ call.times = 1)
    => LET before == LabelsBefore(call.job)
           after == ret.job.labels
           name == call.job_definition_name
           others == {LABEL_KEY, JOB_DEFINITION_NAME_KEY}
       IN /\ ret.exc = "none"
          /\ ret.job.has_labels
          /\ LABEL_KEY \in DOMAIN after /\ after[LABEL_KEY] = Signature
          /\ IF StrTruthy(name)
             THEN /\ JOB_DEFINITION_NAME_KEY \in DOMAIN after
                  /\ after[JOB_DEFINITION_NAME_KEY] = name
             ELSE /\ JOB_DEFINITION_NAME_KEY \in DOMAIN after
                     <=> JOB_DEFINITION_NAME_KEY \in DOMAIN before
                  /\ JOB_DEFINITION_NAME_KEY \in DOMAIN before
                     => after[JOB_DEFINITION_NAME_KEY]
                          = before[JOB_DEFINITION_NAME_KEY]
          /\ DOMAIN after \ others = DOMAIN before \ others
          /\ \A k \in DOMAIN before \ others : after[k] = before[k]
          /\ ret.job.kind = call.job.kind
          /\ ret.job.name = call.job.name
====
